---- MODULE Spec2Model ----
(***************************************************************************)
(* The agent workflow of agentic-data-pipeline-agents: one run of the      *)
(* compiled graph classifier -> retriever -> generator -> critic with the  *)
(* conditional back-edge critic -> generator (src/agents/supervisor/       *)
(* graph.ts), the four step functions it calls and the collaborators       *)
(* (text completion, hybrid search) they call; the spans every node and    *)
(* every text completion call runs in (src/core/telemetry/phoenix.ts); the *)
(* run as the chat route starts it (src/api/routes/chat.ts).               *)
(*                                                                         *)
(* ApiSpec is the server (src/api/server.ts) answering one request,         *)
(* ConcurrentSpec is two chat requests in flight together, their steps     *)
(* interleaved at the collaborator calls they await.                       *)
(* Spec and LiveSpec are the run of graph.invoke with tracing not          *)
(* registered, ChatSpec is the run of the chat route with tracing          *)
(* registered or not, TelemetrySpec applies the telemetry wrappers to      *)
(* functions that return or throw.                                         *)
(*                                                                         *)
(* Numbers that are floats in the code (scores, confidences) are integers  *)
(* in hundredths here: 0.7 is 70, 1 is 100.  A JavaScript number is a      *)
(* record [kind, v] with kind "num", "nan" or "undef" (undefined).          *)
(* An optional string that is undefined is the string "undefined".         *)
(***************************************************************************)
EXTENDS Integers, Sequences, FiniteSets, TLC

VARIABLES
    state,      \* the AgentState channel values of the run
    pc,         \* the node the engine runs next, or "DONE" / "ABORTED"
    trace,      \* history: one entry per node execution, in order
    calls,      \* history: one entry per collaborator call, in order
    thrown,     \* the error graph.invoke rejected with, "none" otherwise
    phoenixEnabled, \* phoenix.ts: whether tracing was registered
    activeSession,  \* the session of the ambient context, NoSession if unset
    spans,      \* history: what was done to spans, each event with its step
    API_KEY,    \* process.env.API_KEY of the server, "undefined" if not set
    request,    \* the HTTP request the server is answering
    res,        \* the HTTP response, NoResponse until there is one
    served,     \* history: the middleware and handlers the request reached
    runs,       \* the chat requests in flight together: the run of each
    arrivals,   \* history: the requests in the order their handler began
    providers,  \* provider.ts _providers: the client of each model id, 0 if none
    created     \* history: the model ids createLLMProvider was called with

\* the variables of the HTTP server
http == <<API_KEY, request, res, served>>

\* the variables of the requests in flight together
concurrent == <<runs, arrivals, providers, created>>

vars == <<state, pc, trace, calls, thrown, phoenixEnabled, activeSession, spans,
          API_KEY, request, res, served, runs, arrivals, providers, created>>

-----------------------------------------------------------------------------
(* Bounds of the model *)

\* most search results one hybrid search response holds
MaxChunks == 2

\* most node executions of one run the model follows
MaxSteps == 8

-----------------------------------------------------------------------------
(* Program constants *)

\* faulty variant: the cap allows one more cycle
MaxIterationsPlusOne == 2 + 1

MAX_ITERATIONS == 2

\* 0.7, the quality gate of routeAfterCritic and of critiqueAnswer
QUALITY_THRESHOLD == 70

\* topK the retriever node asks for
TOP_K == 5

-----------------------------------------------------------------------------
(* JavaScript values *)

Num(n) == [kind |-> "num", v |-> n]
NaN == [kind |-> "nan", v |-> 0]
Undef == [kind |-> "undef", v |-> 0]

IsNum(x) == x.kind = "num"

\* x ?? d
Coalesce(x, d) == IF x.kind = "undef" THEN d ELSE x

\* Math.min(1, Math.max(0, x)): NaN and undefined give NaN
Clamp01(x) ==
    IF x.kind # "num" THEN NaN
    ELSE IF x.v < 0 THEN Num(0)
    ELSE IF x.v > 100 THEN Num(100)
    ELSE x

\* x < y on JavaScript numbers: false when either side is NaN or undefined
JsLess(x, y) == IsNum(x) /\ IsNum(y) /\ x.v < y.v

\* x >= y on JavaScript numbers: false when either side is NaN or undefined
JsGeq(x, y) == IsNum(x) /\ IsNum(y) /\ x.v >= y.v

\* truthiness of a number: undefined, NaN and 0 are falsy
Truthy(x) == IsNum(x) /\ x.v # 0

RECURSIVE SumScores(_)
SumScores(chunks) ==
    IF chunks = <<>> THEN 0
    ELSE Head(chunks).score + SumScores(Tail(chunks))

-----------------------------------------------------------------------------
(* AgentState *)

Queries == {"What is machine learning?"}

SessionIds == {"session-1"}

QueryTypes == {"factual", "analytical", "comparative", "vague", "multi_hop"}

AgentNames == {"supervisor", "classifier", "retriever", "generator", "critic"}

\* the initial state chat.ts and the tests hand to graph.invoke
createInitialState(query, sessionId) ==
    [ query                    |-> query,
      sessionId                |-> sessionId,
      conversationId           |-> "undefined",
      queryType                |-> "undefined",
      classificationConfidence |-> Undef,
      retrievedChunks          |-> [def |-> FALSE, v |-> <<>>],
      retrievalScore           |-> [def |-> FALSE, n |-> 0, d |-> 1],
      draftAnswer              |-> "undefined",
      finalAnswer              |-> "undefined",
      qualityScore             |-> Undef,
      needsRefinement          |-> "undefined",
      refinementReason         |-> "undefined",
      currentAgent             |-> "undefined",
      iterations               |-> 0,
      errors                   |-> <<>> ]

\* every channel of AgentStateAnnotation keeps the last value written to it:
\* the keys a node returns replace the channel values, the others stay
Merge(s, update) ==
    [k \in DOMAIN s |-> IF k \in DOMAIN update THEN update[k] ELSE s[k]]

-----------------------------------------------------------------------------
(* Collaborators: what a call can come back with *)

\* critiqueAnswer's default for a missing qualityScore, and its fallback score
DEFAULT_QUALITY == 50

\* classifyQuery's fallback confidence
DEFAULT_CONFIDENCE == 50

\* generateText rejecting (timeout, rate limit)
LLMErrors == {"LLM request timeout after 30000ms", "Rate limit exceeded"}

\* noText stands for the text that never came
LLMThrows(noText) == {[threw |-> TRUE, error |-> e, text |-> noText] : e \in LLMErrors}

\* no reply to parse
NoJson == [json |-> "none"]

LLMReturns(texts) == {[threw |-> FALSE, error |-> "none", text |-> t] : t \in texts}

\* The text of a classification reply, as JSON.parse reads it: json is
\* "malformed" (JSON.parse throws), "null" (parses to null) or "object".
ClassifierText(json, queryType, confidence) ==
    [json |-> json, queryType |-> queryType, confidence |-> confidence]

ClassifierTexts ==
    { ClassifierText("malformed", "undefined", Undef),
      ClassifierText("object", "factual", Num(95)),
      ClassifierText("object", "analytical", Num(80)),
      ClassifierText("object", "comparative", Num(150)),
      ClassifierText("object", "multi_hop", Num(-50)),
      ClassifierText("object", "vague", NaN),
      ClassifierText("object", "opinion", Num(50)),
      ClassifierText("object", "undefined", Undef) }

\* The text of a critique reply, as JSON.parse reads it.
CriticText(json, qualityScore, needsRefinement, refinementReason) ==
    [json |-> json, qualityScore |-> qualityScore,
     needsRefinement |-> needsRefinement, refinementReason |-> refinementReason]

CriticTexts ==
    { CriticText("malformed", Undef, "undefined", "undefined"),
      CriticText("object", Num(85), "true", "Could cite more sources"),
      CriticText("object", Num(70), "undefined", "undefined"),
      CriticText("object", Num(69), "undefined", "undefined"),
      CriticText("object", Num(50), "true", "Incomplete answer"),
      CriticText("object", Num(50), "false", "undefined"),
      CriticText("object", Num(150), "undefined", "undefined"),
      CriticText("object", Num(-50), "undefined", "undefined"),
      CriticText("object", NaN, "undefined", "undefined"),
      CriticText("object", Undef, "undefined", "undefined") }

\* The text of a generation reply: any string, the empty one included.
GeneratorTexts == {"", "ML is a subset of AI [1].", "Generated answer attempt 2"}

\* One result of the hybrid search service.
SearchResult(id, content, hybrid, similarity) ==
    [chunk_id |-> id, content |-> content,
     hybrid_score |-> hybrid, similarity_score |-> similarity]

SearchResults ==
    { SearchResult("chunk-1", "Machine learning is ...", Num(80), Num(60)),
      SearchResult("chunk-2", "Neural networks are ...", Undef, Num(60)),
      SearchResult("chunk-3", "Deep learning is ...", Undef, Undef) }

RECURSIVE SeqsUpTo(_, _)
SeqsUpTo(S, n) ==
    IF n = 0 THEN {<<>>}
    ELSE LET shorter == SeqsUpTo(S, n - 1)
         IN  shorter \cup {Append(q, x) : q \in shorter, x \in S}

\* What fetch comes back with: it rejects with an Error ("network"), rejects
\* with a value that is no Error ("nonerror"), or resolves to a response whose
\* ok flag is false ("http") or true ("ok"), the body with or without results.
RagOutcomes ==
    { [kind |-> "network", statusText |-> "fetch failed", hasResults |-> FALSE, results |-> <<>>],
      [kind |-> "nonerror", statusText |-> "undefined", hasResults |-> FALSE, results |-> <<>>],
      [kind |-> "http", statusText |-> "Service Unavailable", hasResults |-> FALSE, results |-> <<>>],
      [kind |-> "http", statusText |-> "Gateway Timeout", hasResults |-> FALSE, results |-> <<>>],
      [kind |-> "ok", statusText |-> "OK", hasResults |-> FALSE, results |-> <<>>] }
    \cup
    { [kind |-> "ok", statusText |-> "OK", hasResults |-> TRUE, results |-> r] :
        r \in SeqsUpTo(SearchResults, MaxChunks) }

\* new Date().toISOString()
Timestamps == {"2025-02-28T10:00:00.000Z", "2025-02-28T10:00:01.000Z"}

-----------------------------------------------------------------------------
(* The step functions.  Each returns [threw, error, value]: threw says that *)
(* the call rejected with error, value is what it resolved to otherwise.    *)

\* the value of a call that threw
NoValue == [undefined |-> TRUE]

Throw(e) == [threw |-> TRUE, error |-> e, value |-> NoValue]

Return(v) == [threw |-> FALSE, error |-> "none", value |-> v]

\* faulty variant: the parse failure of the classification is not caught
classifyQueryParseThrows(query, llm) ==
    IF llm.threw THEN Throw(llm.error)
    ELSE IF llm.text.json # "object"
    THEN Throw("SyntaxError: JSON Parse error")
    ELSE Return([queryType |-> llm.text.queryType,
                 confidence |-> Clamp01(llm.text.confidence)])

\* classifyQuery: a rejected generateText propagates; a text JSON.parse cannot
\* read, or that parses to null, gives the vague default.
classifyQuery(query, llm) ==
    IF llm.threw THEN Throw(llm.error)
    ELSE IF llm.text.json # "object"
    THEN Return([queryType |-> "vague", confidence |-> Num(DEFAULT_CONFIDENCE)])
    ELSE Return([queryType |-> llm.text.queryType,
                 confidence |-> Clamp01(llm.text.confidence)])

\* hybridSearch: fetch rejecting propagates; a response that is not ok throws
\* Error(`Hybrid search failed: ${statusText}`); otherwise the body.
hybridSearch(options, rag) ==
    CASE rag.kind = "network" -> Throw([isError |-> TRUE, message |-> rag.statusText])
      [] rag.kind = "nonerror" -> Throw([isError |-> FALSE, message |-> "undefined"])
      [] rag.kind = "http" ->
            Throw([isError |-> TRUE,
                   message |-> IF rag.statusText = "Service Unavailable"
                               THEN "Hybrid search failed: Service Unavailable"
                               ELSE "Hybrid search failed: Gateway Timeout"])
      [] OTHER -> Return([hasResults |-> rag.hasResults, results |-> rag.results])

\* what retrieveDocuments sends to hybridSearch
HybridSearchOptions(options) ==
    [query |-> options.query,
     topK |-> options.topK,
     vectorWeight |-> IF options.queryType = "analytical" THEN 60 ELSE 70,
     textWeight |-> IF options.queryType = "analytical" THEN 40 ELSE 30]

\* r.hybrid_score ?? r.similarity_score ?? 0
\* faulty variant: the similarity score is preferred to the hybrid score
ChunkScoreSimilarityFirst(r) ==
    Coalesce(Coalesce(r.similarity_score, r.hybrid_score), Num(0)).v

ChunkScore(r) == Coalesce(Coalesce(r.hybrid_score, r.similarity_score), Num(0)).v

ToChunk(r) == [chunkId |-> r.chunk_id, content |-> r.content, score |-> ChunkScore(r)]

\* the mean of the chunk scores as the fraction n/d, 0 for no chunks
AvgScore(chunks) ==
    IF Len(chunks) > 0
    THEN [def |-> TRUE, n |-> SumScores(chunks), d |-> Len(chunks)]
    ELSE [def |-> TRUE, n |-> 0, d |-> 1]

retrieveDocuments(options, rag) ==
    LET response == hybridSearch(HybridSearchOptions(options), rag)
    IN  IF response.threw THEN response
        ELSE LET results == IF response.value.hasResults
                            THEN response.value.results ELSE <<>>
                 chunks == [i \in 1..Len(results) |-> ToChunk(results[i])]
             IN  Return([chunks |-> chunks, score |-> AvgScore(chunks)])

\* generateAnswer: any text is taken as it is
generateAnswer(options, llm) ==
    IF llm.threw THEN Throw(llm.error)
    ELSE Return([answer |-> llm.text, sources |-> options.chunks])

\* faulty variant: the parse failure of the critique is not caught
critiqueAnswerParseThrows(options, llm) ==
    IF llm.threw THEN Throw(llm.error)
    ELSE IF llm.text.json # "object"
    THEN Throw("SyntaxError: JSON Parse error")
    ELSE Return([qualityScore |->
                    Clamp01(Coalesce(llm.text.qualityScore, Num(DEFAULT_QUALITY))),
                 needsRefinement |->
                    IF llm.text.needsRefinement # "undefined"
                    THEN llm.text.needsRefinement
                    ELSE IF JsLess(llm.text.qualityScore, Num(QUALITY_THRESHOLD))
                         THEN "true" ELSE "false",
                 refinementReason |-> llm.text.refinementReason])

\* critiqueAnswer: a rejected generateText propagates; a text JSON.parse cannot
\* read, or that parses to null, gives the fixed fallback.
critiqueAnswer(options, llm) ==
    IF llm.threw THEN Throw(llm.error)
    ELSE IF llm.text.json # "object"
    THEN Return([qualityScore |-> Num(DEFAULT_QUALITY),
                 needsRefinement |-> "true",
                 refinementReason |-> "Failed to parse critique response"])
    ELSE Return([qualityScore |->
                    Clamp01(Coalesce(llm.text.qualityScore, Num(DEFAULT_QUALITY))),
                 needsRefinement |->
                    IF llm.text.needsRefinement # "undefined"
                    THEN llm.text.needsRefinement
                    ELSE IF JsLess(llm.text.qualityScore, Num(QUALITY_THRESHOLD))
                         THEN "true" ELSE "false",
                 refinementReason |-> llm.text.refinementReason])

-----------------------------------------------------------------------------
(* The nodes of the graph.  Each returns the partial update of the state,   *)
(* or throws what its step function threw.                                  *)

\* faulty variant: the classification has a catch of its own, like retrieval
classifierNodeCatches(s, llm) ==
    LET result == classifyQuery(s.query, llm)
    IN  IF result.threw
        THEN Return([queryType |-> "vague",
                     classificationConfidence |-> Num(DEFAULT_CONFIDENCE),
                     currentAgent |-> "classifier",
                     errors |-> Append(s.errors,
                        [agent |-> "classifier", message |-> result.error,
                         timestamp |-> "2025-02-28T10:00:00.000Z"])])
        ELSE Return([queryType |-> result.value.queryType,
                     classificationConfidence |-> result.value.confidence,
                     currentAgent |-> "classifier"])

\* faulty variant: the classification writes a query of its own to the state
classifierNodeRewritesQuery(s, llm) ==
    LET result == classifyQuery(s.query, llm)
    IN  IF result.threw THEN result
        ELSE Return([queryType |-> result.value.queryType,
                     classificationConfidence |-> result.value.confidence,
                     currentAgent |-> "classifier",
                     query |-> "machine learning"])

classifierNode(s, llm) ==
    LET result == classifyQuery(s.query, llm)
    IN  IF result.threw THEN result
        ELSE Return([queryType |-> result.value.queryType,
                     classificationConfidence |-> result.value.confidence,
                     currentAgent |-> "classifier"])

\* what retrieverNode passes to retrieveDocuments
RetrieveOptions(s) == [query |-> s.query, queryType |-> s.queryType, topK |-> TOP_K]

\* faulty variant: the retrieval has no catch
retrieverNodeNoCatch(s, rag, now) ==
    LET result == retrieveDocuments(RetrieveOptions(s), rag)
    IN  IF ~result.threw
        THEN Return([retrievedChunks |-> [def |-> TRUE, v |-> result.value.chunks],
                     retrievalScore |-> result.value.score,
                     currentAgent |-> "retriever"])
        ELSE Throw(IF result.error.isError THEN result.error.message
                   ELSE "Retrieval failed")

\* faulty variant: the fallback of a failed retrieval leaves the score out
retrieverNodeFallbackNoScore(s, rag, now) ==
    LET result == retrieveDocuments(RetrieveOptions(s), rag)
    IN  IF ~result.threw
        THEN Return([retrievedChunks |-> [def |-> TRUE, v |-> result.value.chunks],
                     retrievalScore |-> result.value.score,
                     currentAgent |-> "retriever"])
        ELSE Return([retrievedChunks |-> [def |-> TRUE, v |-> <<>>],
                     currentAgent |-> "retriever",
                     errors |-> Append(s.errors,
                        [agent |-> "retriever",
                         message |-> IF result.error.isError
                                     THEN result.error.message
                                     ELSE "Retrieval failed",
                         timestamp |-> now])])

\* faulty variant: the message of the errors entry carries the time
retrieverNodeStampsMessage(s, rag, now) ==
    LET result == retrieveDocuments(RetrieveOptions(s), rag)
    IN  IF ~result.threw
        THEN Return([retrievedChunks |-> [def |-> TRUE, v |-> result.value.chunks],
                     retrievalScore |-> result.value.score,
                     currentAgent |-> "retriever"])
        ELSE Return([retrievedChunks |-> [def |-> TRUE, v |-> <<>>],
                     retrievalScore |-> [def |-> TRUE, n |-> 0, d |-> 1],
                     currentAgent |-> "retriever",
                     errors |-> Append(s.errors,
                        [agent |-> "retriever",
                         message |-> now,
                         timestamp |-> now])])

\* the only node with a catch: a failed retrieval becomes an empty result and
\* one more entry of errors
retrieverNode(s, rag, now) ==
    LET result == retrieveDocuments(RetrieveOptions(s), rag)
    IN  IF ~result.threw
        THEN Return([retrievedChunks |-> [def |-> TRUE, v |-> result.value.chunks],
                     retrievalScore |-> result.value.score,
                     currentAgent |-> "retriever"])
        ELSE Return([retrievedChunks |-> [def |-> TRUE, v |-> <<>>],
                     retrievalScore |-> [def |-> TRUE, n |-> 0, d |-> 1],
                     currentAgent |-> "retriever",
                     errors |-> Append(s.errors,
                        [agent |-> "retriever",
                         message |-> IF result.error.isError
                                     THEN result.error.message
                                     ELSE "Retrieval failed",
                         timestamp |-> now])])

\* faulty variant: a retry hands the previous draft to the generation as
\* conversationContext
GenerateOptionsWithDraft(s) ==
    [query |-> s.query,
     chunks |-> IF s.retrievedChunks.def THEN s.retrievedChunks.v ELSE <<>>,
     conversationContext |-> s.draftAnswer]

\* what generatorNode passes to generateAnswer
GenerateOptions(s) ==
    [query |-> s.query,
     chunks |-> IF s.retrievedChunks.def THEN s.retrievedChunks.v ELSE <<>>]

\* faulty variant: the generation counts iterations too
generatorNodeCountsIteration(s, llm) ==
    LET result == generateAnswer(GenerateOptions(s), llm)
    IN  IF result.threw THEN result
        ELSE Return([draftAnswer |-> result.value.answer,
                     finalAnswer |-> result.value.answer,
                     currentAgent |-> "generator",
                     iterations |-> s.iterations + 1])

\* faulty variant: a generation writes the draft only
generatorNodeDraftOnly(s, llm) ==
    LET result == generateAnswer(GenerateOptions(s), llm)
    IN  IF result.threw THEN result
        ELSE Return([draftAnswer |-> result.value.answer,
                     currentAgent |-> "generator"])

generatorNode(s, llm) ==
    LET result == generateAnswer(GenerateOptions(s), llm)
    IN  IF result.threw THEN result
        ELSE Return([draftAnswer |-> result.value.answer,
                     finalAnswer |-> result.value.answer,
                     currentAgent |-> "generator"])

\* what criticNode passes to critiqueAnswer
CritiqueOptions(s) ==
    [query |-> s.query,
     answer |-> IF s.draftAnswer = "undefined" THEN "" ELSE s.draftAnswer,
     sources |-> IF s.retrievedChunks.def THEN s.retrievedChunks.v ELSE <<>>]

\* faulty variant: the critique forgets to count itself
criticNodeNoIncrement(s, llm) ==
    LET result == critiqueAnswer(CritiqueOptions(s), llm)
    IN  IF result.threw THEN result
        ELSE Return([qualityScore |-> result.value.qualityScore,
                     needsRefinement |-> result.value.needsRefinement,
                     refinementReason |-> result.value.refinementReason,
                     currentAgent |-> "critic",
                     iterations |-> s.iterations])

\* faulty variant: the critique starts the errors afresh
criticNodeClearsErrors(s, llm) ==
    LET result == critiqueAnswer(CritiqueOptions(s), llm)
    IN  IF result.threw THEN result
        ELSE Return([qualityScore |-> result.value.qualityScore,
                     needsRefinement |-> result.value.needsRefinement,
                     refinementReason |-> result.value.refinementReason,
                     currentAgent |-> "critic",
                     iterations |-> s.iterations + 1,
                     errors |-> <<>>])

\* faulty variant: the critique does not sign the state
criticNodeKeepsAgent(s, llm) ==
    LET result == critiqueAnswer(CritiqueOptions(s), llm)
    IN  IF result.threw THEN result
        ELSE Return([qualityScore |-> result.value.qualityScore,
                     needsRefinement |-> result.value.needsRefinement,
                     refinementReason |-> result.value.refinementReason,
                     iterations |-> s.iterations + 1])

criticNode(s, llm) ==
    LET result == critiqueAnswer(CritiqueOptions(s), llm)
    IN  IF result.threw THEN result
        ELSE Return([qualityScore |-> result.value.qualityScore,
                     needsRefinement |-> result.value.needsRefinement,
                     refinementReason |-> result.value.refinementReason,
                     currentAgent |-> "critic",
                     iterations |-> s.iterations + 1])

\* faulty variant: the iteration cap is off by one (> for >=)
routeAfterCriticOffByOne(s) ==
    IF Truthy(s.qualityScore) /\ JsGeq(s.qualityScore, Num(QUALITY_THRESHOLD))
    THEN "DONE"
    ELSE IF s.iterations > MAX_ITERATIONS
    THEN "DONE"
    ELSE "generator"

\* faulty variant: the quality gate is strict (> 0.7 for >= 0.7)
routeAfterCriticStrict(s) ==
    IF Truthy(s.qualityScore) /\ JsLess(Num(QUALITY_THRESHOLD), s.qualityScore)
    THEN "DONE"
    ELSE IF s.iterations >= MAX_ITERATIONS
    THEN "DONE"
    ELSE "generator"

\* faulty variant: a refinement is routed to a node name the graph does not have
routeAfterCriticUnwired(s) ==
    IF Truthy(s.qualityScore) /\ JsGeq(s.qualityScore, Num(QUALITY_THRESHOLD))
    THEN "DONE"
    ELSE IF s.iterations >= MAX_ITERATIONS
    THEN "DONE"
    ELSE "refiner"

\* faulty variant: the route follows the refinement flag instead of the score
routeAfterCriticOnFlag(s) ==
    IF s.needsRefinement = "false"
    THEN "DONE"
    ELSE IF s.iterations >= MAX_ITERATIONS
    THEN "DONE"
    ELSE "generator"

\* faulty variant: the back-edge returns to the start of the pipeline
routeAfterCriticToClassifier(s) ==
    IF Truthy(s.qualityScore) /\ JsGeq(s.qualityScore, Num(QUALITY_THRESHOLD))
    THEN "DONE"
    ELSE IF s.iterations >= MAX_ITERATIONS
    THEN "DONE"
    ELSE "classifier"

\* faulty variant: a passing score ends the run only if the critique did not
\* ask for a refinement as well
routeAfterCriticHonoursFlag(s) ==
    IF Truthy(s.qualityScore) /\ JsGeq(s.qualityScore, Num(QUALITY_THRESHOLD))
          /\ s.needsRefinement # "true"
    THEN "DONE"
    ELSE IF s.iterations >= MAX_ITERATIONS
    THEN "DONE"
    ELSE "generator"

\* the conditional edge out of critic: "DONE" is END
routeAfterCritic(s) ==
    IF Truthy(s.qualityScore) /\ JsGeq(s.qualityScore, Num(QUALITY_THRESHOLD))
    THEN "DONE"
    ELSE IF s.iterations >= MAX_ITERATIONS
    THEN "DONE"
    ELSE "generator"

\* the edges of createAgentGraph: where the run goes after node, s being the
\* state with the node's update merged in
Edge(node, s) ==
    CASE node = "classifier" -> "retriever"
      [] node = "retriever" -> "generator"
      [] node = "generator" -> "critic"
      [] node = "critic" -> routeAfterCritic(s)

-----------------------------------------------------------------------------
(* Telemetry (src/core/telemetry/phoenix.ts).  A thrown value is a string:  *)
(* the message of an Error, or one of NonErrorValues for a value that is no *)
(* Error.  What a call did to the spans is a sequence of events, its log;   *)
(* a span is known by its name within the step that starts it.              *)

\* the span handle fn is given while tracing is disabled
NullSpan == "null"

\* the ambient context when withSessionContext has set no session
NoSession == "none"

\* thrown values that are not instances of Error
NonErrorValues == {"thrown string"}

\* error instanceof Error
InstanceOfError(error) == error \notin NonErrorValues

\* the attributes whose value is not undefined
DefinedAttributes(attributes) ==
    [k \in {a \in DOMAIN attributes : attributes[a] # "undefined"} |-> attributes[k]]

\* tracer.startActiveSpan, then the attributes of the ambient context
\* (session.id) and the attributes given are set on the span
StartEvent(span, session, attributes) ==
    [op |-> "start", span |-> span, session |-> session,
     attributes |-> DefinedAttributes(attributes)]

\* span.setAttributes
AttributesEvent(span, attributes) ==
    [op |-> "setAttributes", span |-> span, attributes |-> attributes]

\* wrapper invokes fn, with the span handle it passes (none for
\* withSessionContext) under the ambient session
CallEvent(wrapper, span, session) ==
    [op |-> "call", wrapper |-> wrapper, span |-> span, session |-> session]

\* span.setStatus
StatusEvent(span, code, message) ==
    [op |-> "setStatus", span |-> span, code |-> code, message |-> message]

\* span.recordException: the error itself, or new Error(String(error))
ExceptionEvent(span, error) ==
    [op |-> "recordException", span |-> span, message |-> error,
     wrapped |-> ~InstanceOfError(error)]

\* span.end
EndEvent(span) == [op |-> "end", span |-> span]

\* an outcome [threw, error, value] together with the log of what was done
\* to the spans on the way to it
WithLog(r, log) ==
    [threw |-> r.threw, error |-> r.error, value |-> r.value, log |-> log]

\* the outcome without the log
Outcome(r) == [threw |-> r.threw, error |-> r.error, value |-> r.value]

\* span?.setAttributes(...): nothing on the null handle
SetAttributes(span, attributes) ==
    IF span = NullSpan THEN <<>> ELSE <<AttributesEvent(span, attributes)>>

\* what the span of a call of fn does after fn settled: status OK on a
\* return, status ERROR and the exception on a throw, and the end in both
SettleSpan(name, r) ==
    IF r.threw
    THEN << StatusEvent(name, 2, IF InstanceOfError(r.error) THEN r.error
                                 ELSE "Unknown error"),
            ExceptionEvent(name, r.error),
            EndEvent(name) >>
    ELSE << StatusEvent(name, 0, "undefined"), EndEvent(name) >>

\* the log of a traced call of fn that settled as r: the span is started, fn
\* is called with it, and the span is settled
SpanLog(session, name, attributes, r) ==
    << StartEvent(name, session, attributes), CallEvent(name, name, session) >>
    \o r.log \o SettleSpan(name, r)

\* faulty variant: the catch records the error and does not throw it again
createSpanSwallows(enabled, session, name, attributes, fn) ==
    IF ~enabled
    THEN CHOOSE out \in
            { WithLog(r, <<CallEvent(name, NullSpan, session)>> \o r.log) :
              r \in {fn[NullSpan]} } : TRUE
    ELSE CHOOSE out \in
            { WithLog(IF r.threw THEN Return(NoValue) ELSE r,
                      SpanLog(session, name, attributes, r)) :
              r \in {fn[name]} } : TRUE

\* faulty variant: the span is ended in the try, not in a finally
createSpanEndsOnReturn(enabled, session, name, attributes, fn) ==
    IF ~enabled
    THEN CHOOSE out \in
            { WithLog(r, <<CallEvent(name, NullSpan, session)>> \o r.log) :
              r \in {fn[NullSpan]} } : TRUE
    ELSE CHOOSE out \in
            { WithLog(r, IF r.threw
                         THEN SubSeq(SpanLog(session, name, attributes, r), 1,
                                     Len(SpanLog(session, name, attributes, r)) - 1)
                         ELSE SpanLog(session, name, attributes, r)) :
              r \in {fn[name]} } : TRUE

\* faulty variant: fn is run inside a span whether tracing is enabled or not
createSpanAlwaysTraces(enabled, session, name, attributes, fn) ==
    CHOOSE out \in
        { WithLog(r, SpanLog(session, name, attributes, r)) :
          r \in {fn[name]} } : TRUE

\* faulty variant: fn is not awaited, so the span is settled and ended before
\* fn has run
createSpanNoAwait(enabled, session, name, attributes, fn) ==
    IF ~enabled
    THEN CHOOSE out \in
            { WithLog(r, <<CallEvent(name, NullSpan, session)>> \o r.log) :
              r \in {fn[NullSpan]} } : TRUE
    ELSE CHOOSE out \in
            { WithLog(r, << StartEvent(name, session, attributes),
                            StatusEvent(name, 0, "undefined"),
                            EndEvent(name),
                            CallEvent(name, name, session) >> \o r.log) :
              r \in {fn[name]} } : TRUE

\* createSpan(name, attributes, fn) under the module's phoenixEnabled and the
\* ambient session; fn maps the handle it is given to its outcome and log,
\* and r is what the one call of fn settled as
createSpan(enabled, session, name, attributes, fn) ==
    IF ~enabled
    THEN CHOOSE out \in
            { WithLog(r, <<CallEvent(name, NullSpan, session)>> \o r.log) :
              r \in {fn[NullSpan]} } : TRUE
    ELSE CHOOSE out \in
            { WithLog(r, SpanLog(session, name, attributes, r)) :
              r \in {fn[name]} } : TRUE

\* createSessionSpan(name, attributes, fn): the same steps as createSpan
createSessionSpan(enabled, session, name, attributes, fn) ==
    IF ~enabled
    THEN CHOOSE out \in
            { WithLog(r, <<CallEvent(name, NullSpan, session)>> \o r.log) :
              r \in {fn[NullSpan]} } : TRUE
    ELSE CHOOSE out \in
            { WithLog(r, SpanLog(session, name, attributes, r)) :
              r \in {fn[name]} } : TRUE

\* the ambient session fn runs under in withSessionContext(sessionId, fn):
\* setSession puts sessionId there only while tracing is enabled
SessionWithin(enabled, session, sessionId) ==
    IF ~enabled THEN session ELSE sessionId

\* faulty variant: fn is run a second time when it threw
withSessionContextRetries(enabled, session, sessionId, fn) ==
    CHOOSE out \in
        { WithLog(r, <<CallEvent("withSessionContext", NullSpan,
                                 SessionWithin(enabled, session, sessionId))>>
                     \o r.log
                     \o IF r.threw
                        THEN <<CallEvent("withSessionContext", NullSpan,
                                         SessionWithin(enabled, session, sessionId))>>
                             \o r.log
                        ELSE <<>>) :
          r \in {fn[SessionWithin(enabled, session, sessionId)]} } : TRUE

\* withSessionContext(sessionId, fn): fn maps the session it runs under to
\* its outcome and log, and r is what the one call of fn settled as
withSessionContext(enabled, session, sessionId, fn) ==
    CHOOSE out \in
        { WithLog(r, <<CallEvent("withSessionContext", NullSpan,
                                 SessionWithin(enabled, session, sessionId))>>
                     \o r.log) :
          r \in {fn[SessionWithin(enabled, session, sessionId)]} } : TRUE

-----------------------------------------------------------------------------
(* The step functions and the nodes as they run: each inside a span of its  *)
(* own.  Token usage and text length are not modelled: the attributes that  *)
(* carry them have the value "number".                                      *)

\* classifyQuery: the text completion call and the parse, in the span
\* classify_llm_call
classify_llm_call(enabled, session, query, llm) ==
    createSpan(enabled, session, "classify_llm_call",
               [agent_name |-> "classifier", llm_model |-> "gpt-5-mini"],
               [span \in {NullSpan, "classify_llm_call"} |->
                   LET r == classifyQuery(query, llm)
                   IN  WithLog(r,
                         IF r.threw THEN <<>>
                         ELSE SetAttributes(span, [llm_tokens_used |-> "number",
                                                   llm_response_length |-> "number"])
                              \o SetAttributes(span, [query_type |-> r.value.queryType]))])

\* generateAnswer in the span generate_llm_call
generate_llm_call(enabled, session, options, llm) ==
    createSpan(enabled, session, "generate_llm_call",
               [openinference_span_kind |-> "llm", llm_model_name |-> "gpt-4.1",
                input_value |-> options.query,
                llm_chunk_count |-> ToString(Len(options.chunks))],
               [span \in {NullSpan, "generate_llm_call"} |->
                   LET r == generateAnswer(options, llm)
                   IN  WithLog(r,
                         IF r.threw THEN <<>>
                         ELSE SetAttributes(span, [llm_token_count_total |-> "number",
                                                   llm_token_count_prompt |-> "number",
                                                   llm_token_count_completion |-> "number",
                                                   output_value |-> r.value.answer]))])

\* critiqueAnswer in the span critique_llm_call
critique_llm_call(enabled, session, options, llm) ==
    createSpan(enabled, session, "critique_llm_call",
               [agent_name |-> "critic", llm_model |-> "gpt-5-mini"],
               [span \in {NullSpan, "critique_llm_call"} |->
                   LET r == critiqueAnswer(options, llm)
                   IN  WithLog(r,
                         IF r.threw THEN <<>>
                         ELSE SetAttributes(span, [llm_tokens_used |-> "number",
                                                   llm_response_length |-> "number"])
                              \o SetAttributes(span, [quality_score |-> r.value.qualityScore]))])

\* classifierNode in the span classifier_node
classifier_node(enabled, session, s, llm) ==
    createSpan(enabled, session, "classifier_node",
               [openinference_span_kind |-> "chain", workflow_status |-> "in_progress"],
               [span \in {NullSpan, "classifier_node"} |->
                   LET r == classifierNode(s, llm)
                   IN  WithLog(r,
                         classify_llm_call(enabled, session, s.query, llm).log
                         \o IF r.threw THEN <<>>
                            ELSE SetAttributes(span, [query_type |-> r.value.queryType,
                                                      workflow_status |-> "completed"]))])

\* retrieverNode in the span retriever_node; the retrieval has no span of its
\* own, and its catch is inside the span's fn
retriever_node(enabled, session, s, rag, now) ==
    createSpan(enabled, session, "retriever_node",
               [openinference_span_kind |-> "chain", workflow_status |-> "in_progress"],
               [span \in {NullSpan, "retriever_node"} |->
                   LET r == retrieverNode(s, rag, now)
                   IN  WithLog(r,
                         IF r.threw THEN <<>>
                         ELSE IF retrieveDocuments(RetrieveOptions(s), rag).threw
                         THEN SetAttributes(span, [workflow_status |-> "failed"])
                         ELSE SetAttributes(span, [retrieval_score |-> r.value.retrievalScore,
                                                   workflow_status |-> "completed"]))])

\* generatorNode in the span generator_node
generator_node(enabled, session, s, llm) ==
    createSpan(enabled, session, "generator_node",
               [openinference_span_kind |-> "chain", workflow_status |-> "in_progress",
                iteration_count |-> ToString(s.iterations)],
               [span \in {NullSpan, "generator_node"} |->
                   LET r == generatorNode(s, llm)
                   IN  WithLog(r,
                         generate_llm_call(enabled, session, GenerateOptions(s), llm).log
                         \o IF r.threw THEN <<>>
                            ELSE SetAttributes(span, [workflow_status |-> "completed"]))])

\* criticNode in the span critic_node
critic_node(enabled, session, s, llm) ==
    createSpan(enabled, session, "critic_node",
               [openinference_span_kind |-> "chain", workflow_status |-> "in_progress",
                iteration_count |-> ToString(s.iterations)],
               [span \in {NullSpan, "critic_node"} |->
                   LET r == criticNode(s, llm)
                   IN  WithLog(r,
                         critique_llm_call(enabled, session, CritiqueOptions(s), llm).log
                         \o IF r.threw THEN <<>>
                            ELSE SetAttributes(span, [quality_score |-> r.value.qualityScore,
                                                      workflow_status |-> "completed"]))])

-----------------------------------------------------------------------------
(* The engine: graph.invoke(initial state) *)

\* the run is not one the HTTP server started
NoRequest == [path |-> "none", apiKey |-> "undefined",
              body |-> [query |-> "undefined", conversationId |-> "undefined"]]

NoResponse == [status |-> 0, body |-> [pending |-> TRUE]]

\* the provider.ts pool before the first getLLM
ModelIds == {"gpt-5-mini", "gpt-4.1"}

NoProviders == [m \in ModelIds |-> 0]

\* one request at a time: nothing is in flight beside the run
NoServer ==
    /\ API_KEY = "undefined"
    /\ request = NoRequest
    /\ res = NoResponse
    /\ served = <<>>
    /\ runs = <<>>
    /\ arrivals = <<>>
    /\ providers = NoProviders
    /\ created = <<>>

Respond(status, body) == [status |-> status, body |-> body]

\* the source fields of a retrieved chunk in the response; substring(0, 200)
\* leaves the contents of SearchResults, all shorter than 200, as they are
ToSource(chunk) ==
    [chunkId |-> chunk.chunkId, content |-> chunk.content, score |-> chunk.score]

\* result.retrievedChunks?.map(...)
Sources(chunks) ==
    IF ~chunks.def THEN [def |-> FALSE, v |-> <<>>]
    ELSE [def |-> TRUE, v |-> [i \in DOMAIN chunks.v |-> ToSource(chunks.v[i])]]

\* faulty variant: the error of a failed run is answered with status 200
ChatFailureOk(error) ==
    Respond(200, [error |-> IF InstanceOfError(error) THEN error ELSE "Unknown error"])

\* the catch of POST /
ChatFailure(error) ==
    Respond(500, [error |-> IF InstanceOfError(error) THEN error ELSE "Unknown error"])

\* the response of POST / to a run that resolved to result
ChatSuccess(result) ==
    Respond(200, [answer |-> result.finalAnswer,
                  queryType |-> result.queryType,
                  qualityScore |-> result.qualityScore,
                  sources |-> Sources(result.retrievedChunks)])

\* POST /api/v1/chat, from graph.invoke on: once the run is at DONE or at
\* ABORTED the handler that awaits it answers with the result or from its
\* catch; a run no chat request started has nobody to answer
ChatAnswer(path, at, error, result, pending) ==
    IF path # "/api/v1/chat" \/ at \notin {"DONE", "ABORTED"} THEN pending
    ELSE IF at = "ABORTED" THEN ChatFailure(error)
    ELSE ChatSuccess(result)

Init ==
    /\ \E q \in Queries, sid \in SessionIds : state = createInitialState(q, sid)
    /\ pc = "classifier"
    /\ trace = <<>>
    /\ calls = <<>>
    /\ thrown = "none"
    /\ phoenixEnabled = FALSE
    /\ activeSession = NoSession
    /\ spans = <<>>
    /\ NoServer

\* faulty variant: every node is invoked on the state the run started with
NodeInputInitial == IF trace = <<>> THEN state ELSE trace[1].input

\* the state a node is invoked on: the channel values as they are now
NodeInput == state

\* the events of a log, each with the step that made it
Tagged(log, step) == [i \in 1..Len(log) |-> [step |-> step, event |-> log[i]]]

\* One superstep: the node runs on the current state and calls its
\* collaborator; its update is merged and the edge out of it is followed, or
\* what it threw ends the run.
RunNode(node, input, call, result) ==
    /\ pc = node
    /\ Len(trace) < MaxSteps
    /\ UNCHANGED <<phoenixEnabled, activeSession, API_KEY, request, served, concurrent>>
    /\ calls' = Append(calls, call)
    /\ \E r \in {result} :
          /\ trace' = Append(trace, [node |-> node, input |-> input,
                                     threw |-> r.threw, update |-> r.value])
          /\ spans' = spans \o Tagged(r.log, Len(trace) + 1)
          /\ IF r.threw
             THEN /\ pc' = "ABORTED"
                  /\ thrown' = r.error
                  /\ state' = state
             ELSE /\ state' = Merge(state, r.value)
                  /\ pc' = Edge(node, state')
                  /\ thrown' = thrown
    /\ res' = ChatAnswer(request.path, pc', thrown', state', res)

ClassifierStep ==
    \E llm \in LLMThrows(NoJson) \cup LLMReturns(ClassifierTexts) :
        RunNode("classifier", NodeInput,
                [agent |-> "classifier", options |-> [query |-> NodeInput.query],
                 response |-> llm],
                classifier_node(phoenixEnabled, activeSession, NodeInput, llm))

RetrieverStep ==
    \E rag \in RagOutcomes, now \in Timestamps :
        RunNode("retriever", NodeInput,
                [agent |-> "retriever",
                 options |-> HybridSearchOptions(RetrieveOptions(NodeInput)),
                 response |-> rag],
                retriever_node(phoenixEnabled, activeSession, NodeInput, rag, now))

GeneratorStep ==
    \E llm \in LLMThrows("undefined") \cup LLMReturns(GeneratorTexts) :
        RunNode("generator", NodeInput,
                [agent |-> "generator", options |-> GenerateOptions(NodeInput),
                 response |-> llm],
                generator_node(phoenixEnabled, activeSession, NodeInput, llm))

CriticStep ==
    \E llm \in LLMThrows(NoJson) \cup LLMReturns(CriticTexts) :
        RunNode("critic", NodeInput,
                [agent |-> "critic", options |-> CritiqueOptions(NodeInput),
                 response |-> llm],
                critic_node(phoenixEnabled, activeSession, NodeInput, llm))

Next ==
    \/ ClassifierStep
    \/ RetrieverStep
    \/ GeneratorStep
    \/ CriticStep

Spec == Init /\ [][Next]_vars

\* every collaborator call comes back (returns or throws): a node that can
\* run does run
LiveSpec == Spec /\ WF_vars(Next)

-----------------------------------------------------------------------------
(* The chat route (src/api/routes/chat.ts): the run it starts *)

\* body.conversationId: absent, or the id of a conversation
ConversationIds == {"undefined", "conv-1"}

\* faulty variant: ?? in place of ||, the empty conversationId is kept
resolveSessionIdNullish(conversationId, uuid) ==
    IF conversationId # "undefined" THEN conversationId ELSE uuid

\* conversationId || crypto.randomUUID()
resolveSessionId(conversationId, uuid) ==
    IF conversationId \notin {"undefined", ""} THEN conversationId ELSE uuid

\* what POST / gives graph.invoke
ChatInput(query, sessionId, conversationId) ==
    [createInitialState(query, sessionId) EXCEPT !.conversationId = conversationId]

\* POST /: graph.invoke on the request's query and ids, inside
\* withSessionContext(sessionId, ...), tracing registered at startup or not
ChatInit ==
    \E q \in Queries, conversationId \in ConversationIds, uuid \in SessionIds,
       enabled \in BOOLEAN :
        LET sessionId == resolveSessionId(conversationId, uuid)
            within == SessionWithin(enabled, NoSession, sessionId)
        IN  /\ state = ChatInput(q, sessionId, conversationId)
            /\ pc = "classifier"
            /\ trace = <<>>
            /\ calls = <<>>
            /\ thrown = "none"
            /\ phoenixEnabled = enabled
            /\ activeSession = within
            /\ spans = Tagged(<<CallEvent("withSessionContext", NullSpan, within)>>, 0)
            /\ NoServer

ChatSpec == ChatInit /\ [][Next]_vars

-----------------------------------------------------------------------------
(* The server (src/api/server.ts): one request through the API key          *)
(* middleware to the health route or a chat route, and the response.  The   *)
(* chat route's run is the engine's; tracing is not registered.  The stream *)
(* route is followed until it hands its run to the event stream.            *)

Paths == {"/health", "/api/v1/chat", "/api/v1/chat/stream"}

\* the X-API-Key header: absent, the configured key, another key
ApiKeyHeaders == {"undefined", "test-secret-key", "wrong-key"}

\* process.env.API_KEY: not set, or set
ConfiguredKeys == {"undefined", "test-secret-key"}

\* body.query: absent, empty, or a query
BodyQueries == {"undefined", ""} \cup Queries

\* the truthiness of an optional string
TruthyString(s) == s \notin {"undefined", ""}

\* faulty variant: a request without a key passes
apiKeyAuthMissingPasses(configuredKey, providedKey) ==
    IF ~TruthyString(configuredKey) THEN "next"
    ELSE IF TruthyString(providedKey) /\ providedKey # configuredKey THEN "401"
    ELSE "next"

\* faulty variant: without a configured key every request is turned away
apiKeyAuthFailClosed(configuredKey, providedKey) ==
    IF ~TruthyString(providedKey) \/ providedKey # configuredKey THEN "401"
    ELSE "next"

\* apiKeyAuth: "next" if the request goes on to the handler, "401" if not
apiKeyAuth(configuredKey, providedKey) ==
    IF ~TruthyString(configuredKey) THEN "next"
    ELSE IF ~TruthyString(providedKey) \/ providedKey # configuredKey THEN "401"
    ELSE "next"

\* the handler of a path under /api/v1
HandlerOf(path) == IF path = "/api/v1/chat" THEN "chat" ELSE "stream"

\* faulty variant: an empty query is taken for a query
QueryMissingUndefinedOnly(body) == body.query = "undefined"

\* !body.query
QueryMissing(body) == ~TruthyString(body.query)

ApiInit ==
    /\ \E q \in Queries, sid \in SessionIds : state = createInitialState(q, sid)
    /\ pc = "server"
    /\ trace = <<>>
    /\ calls = <<>>
    /\ thrown = "none"
    /\ phoenixEnabled = FALSE
    /\ activeSession = NoSession
    /\ spans = <<>>
    /\ API_KEY \in ConfiguredKeys
    /\ \E path \in Paths, key \in ApiKeyHeaders, query \in BodyQueries :
          request = [path |-> path, apiKey |-> key,
                     body |-> [query |-> query, conversationId |-> "undefined"]]
    /\ res = NoResponse
    /\ served = <<>>
    /\ runs = <<>>
    /\ arrivals = <<>>
    /\ providers = NoProviders
    /\ created = <<>>

engine == <<state, trace, calls, thrown, phoenixEnabled, activeSession, spans>>

\* GET /health: in front of the API key middleware
Health ==
    /\ pc = "server"
    /\ request.path = "/health"
    /\ served' = Append(served, "health")
    /\ res' = Respond(200, [status |-> "healthy"])
    /\ pc' = "RESPONDED"
    /\ UNCHANGED <<engine, API_KEY, request, concurrent>>

\* app.use('/api/v1/*', apiKeyAuth)
ApiKeyAuth ==
    /\ pc = "server"
    /\ request.path # "/health"
    /\ served' = Append(served, "apiKeyAuth")
    /\ IF apiKeyAuth(API_KEY, request.apiKey) = "401"
       THEN /\ res' = Respond(401, [error |-> "Invalid or missing API key"])
            /\ pc' = "RESPONDED"
       ELSE /\ res' = res
            /\ pc' = HandlerOf(request.path)
    /\ UNCHANGED <<engine, API_KEY, request, concurrent>>

\* POST /api/v1/chat, up to graph.invoke; the run's last step answers
ChatPost ==
    /\ pc = "chat"
    /\ served' = Append(served, "chat")
    /\ IF QueryMissing(request.body)
       THEN /\ res' = Respond(400, [error |-> "Query is required"])
            /\ pc' = "RESPONDED"
            /\ UNCHANGED <<state, activeSession, spans>>
       ELSE \E uuid \in SessionIds :
              LET sessionId == resolveSessionId(request.body.conversationId, uuid)
                  within == SessionWithin(phoenixEnabled, activeSession, sessionId)
              IN  /\ state' = ChatInput(request.body.query, sessionId,
                                        request.body.conversationId)
                  /\ activeSession' = within
                  /\ spans' = Tagged(<<CallEvent("withSessionContext", NullSpan, within)>>, 0)
                  /\ res' = res
                  /\ pc' = "classifier"
    /\ UNCHANGED <<trace, calls, thrown, phoenixEnabled, API_KEY, request, concurrent>>

\* POST /api/v1/chat/stream, up to the event stream that carries the run
StreamPost ==
    /\ pc = "stream"
    /\ served' = Append(served, "stream")
    /\ IF QueryMissing(request.body)
       THEN /\ res' = Respond(400, [error |-> "Query is required"])
            /\ pc' = "RESPONDED"
       ELSE /\ res' = Respond(200, [stream |-> "agent_update"])
            /\ pc' = "STREAMING"
    /\ UNCHANGED <<engine, API_KEY, request, concurrent>>

ApiNext ==
    \/ Health
    \/ ApiKeyAuth
    \/ ChatPost
    \/ StreamPost
    \/ ClassifierStep
    \/ RetrieverStep
    \/ GeneratorStep
    \/ CriticStep

ApiSpec == ApiInit /\ [][ApiNext]_vars

-----------------------------------------------------------------------------
(* Chat requests in flight together.  The server is one thread: the code of *)
(* a request runs until it awaits a collaborator call, then the code of any *)
(* request whose call has come back runs.  A step is therefore two actions: *)
(* Begin, from the start of the node to the call it awaits (the spans are   *)
(* started in the ambient context, getLLM is evaluated), and Settle, from   *)
(* the answer of the call to the merge of the update and the edge.          *)

Requests == {"req-1", "req-2"}

\* crypto.randomUUID(): no two calls return the same
RandomUUID(r) == IF r = "req-1" THEN "uuid-1" ELSE "uuid-2"

\* the model id the step function of a node gives getLLM; the retriever's
\* gets no client
ModelOf(node) ==
    CASE node = "classifier" -> "gpt-5-mini"
      [] node = "retriever" -> "none"
      [] node = "generator" -> "gpt-4.1"
      [] node = "critic" -> "gpt-5-mini"

\* _providers.set(modelId, createLLMProvider(modelId)): the provider is
\* known by the number of the createLLMProvider call that made it
SetProvider(pool, modelId) ==
    [providers |-> [pool.providers EXCEPT ![modelId] = Len(pool.created) + 1],
     created |-> Append(pool.created, modelId),
     client |-> Len(pool.created) + 1]

\* faulty variant: the pool is not looked up
getLLMNoCache(pool, modelId) == SetProvider(pool, modelId)

\* getLLM: has, set and get run without a suspension point between them
getLLM(pool, modelId) ==
    IF pool.providers[modelId] = 0
    THEN SetProvider(pool, modelId)
    ELSE [providers |-> pool.providers, created |-> pool.created,
          client |-> pool.providers[modelId]]

\* a request whose handler has not begun
NoRun == createInitialState("undefined", "undefined")

NewRequest(query, conversationId) ==
    [request |-> [query |-> query, conversationId |-> conversationId],
     sessionId |-> "undefined",
     context |-> NoSession,
     state |-> NoRun,
     pc |-> "chat",
     awaiting |-> FALSE,
     input |-> NoRun,
     seen |-> NoSession,
     client |-> 0,
     answers |-> <<>>,
     log |-> <<>>,
     thrown |-> "none"]

\* what a text completion call answers in this specification: it hits the
\* rate limit, or returns one of texts
ConcurrentLLM(noText, texts) ==
    {llm \in LLMThrows(noText) : llm.error = "Rate limit exceeded"}
        \cup LLMReturns(texts)

\* what the search service answers in this specification: 503, or one chunk
ConcurrentRag ==
    {rag \in RagOutcomes :
        \/ rag.kind = "http" /\ rag.statusText = "Service Unavailable"
        \/ rag.results = <<SearchResult("chunk-1", "Machine learning is ...",
                                        Num(80), Num(60))>>}

\* what the collaborator of a node answers, with the time the retriever
\* reads on a failure
ConcurrentAnswers(node) ==
    CASE node = "classifier" ->
            {[response |-> llm, now |-> "none"] :
                llm \in ConcurrentLLM(NoJson,
                                      {ClassifierText("object", "factual", Num(95))})}
      [] node = "retriever" ->
            {[response |-> rag, now |-> now] :
                rag \in ConcurrentRag, now \in Timestamps}
      [] node = "generator" ->
            {[response |-> llm, now |-> "none"] :
                llm \in ConcurrentLLM("undefined", {"ML is a subset of AI [1]."})}
      [] node = "critic" ->
            {[response |-> llm, now |-> "none"] :
                llm \in ConcurrentLLM(NoJson,
                                      {CriticText("object", Num(85), "true",
                                                  "Could cite more sources"),
                                       CriticText("object", Num(50), "true",
                                                  "Incomplete answer")})}

\* the node as it runs on input s in the ambient context session, given the
\* answer of its collaborator
RunStep(node, enabled, session, s, answer) ==
    CASE node = "classifier" -> classifier_node(enabled, session, s, answer.response)
      [] node = "retriever" ->
            retriever_node(enabled, session, s, answer.response, answer.now)
      [] node = "generator" -> generator_node(enabled, session, s, answer.response)
      [] node = "critic" -> critic_node(enabled, session, s, answer.response)

ConcurrentInit ==
    /\ \E q \in Queries, sid \in SessionIds : state = createInitialState(q, sid)
    /\ pc = "concurrent"
    /\ trace = <<>>
    /\ calls = <<>>
    /\ thrown = "none"
    /\ phoenixEnabled = TRUE
    /\ activeSession = NoSession
    /\ spans = <<>>
    /\ API_KEY = "undefined"
    /\ request = NoRequest
    /\ res = NoResponse
    /\ served = <<>>
    /\ \E q \in Queries, conversationId \in [Requests -> ConversationIds \cup {""}] :
          runs = [r \in Requests |-> NewRequest(q, conversationId[r])]
    /\ arrivals = <<>>
    /\ providers = NoProviders
    /\ created = <<>>

\* faulty variant: the ambient context is one for the process, the one the
\* request that arrived last has set
ActiveSessionOfProcess(r) == runs[arrivals[Len(arrivals)]].context

\* context.active() in the code of request r: the context its handler set,
\* which every continuation of the handler's call inherits
ActiveSession(r) == runs[r].context

\* faulty variant: the channel values are one for the compiled graph, those
\* of the request that arrived last
RunInputOfGraph(r) == runs[arrivals[Len(arrivals)]].state

\* the state a node of request r is invoked on: the channel values of r's run
RunInput(r) == runs[r].state

\* POST / for request r, up to graph.invoke
Arrive(r) ==
    /\ runs[r].pc = "chat"
    /\ LET sessionId == resolveSessionId(runs[r].request.conversationId, RandomUUID(r))
           within == SessionWithin(phoenixEnabled, NoSession, sessionId)
       IN  runs' = [runs EXCEPT ![r] =
                      [@ EXCEPT !.sessionId = sessionId,
                                !.context = within,
                                !.state = ChatInput(runs[r].request.query, sessionId,
                                                    runs[r].request.conversationId),
                                !.log = <<CallEvent("withSessionContext", NullSpan, within)>>,
                                !.pc = "classifier"]]
    /\ arrivals' = Append(arrivals, r)
    /\ UNCHANGED <<engine, pc, http, providers, created>>

\* the node of request r runs up to the collaborator call it awaits
Begin(r) ==
    /\ runs[r].pc \in AgentNames
    /\ ~runs[r].awaiting
    /\ \E pool \in {IF ModelOf(runs[r].pc) = "none"
                    THEN [providers |-> providers, created |-> created, client |-> 0]
                    ELSE getLLM([providers |-> providers, created |-> created],
                                ModelOf(runs[r].pc))} :
          /\ providers' = pool.providers
          /\ created' = pool.created
          /\ runs' = [runs EXCEPT ![r] =
                        [@ EXCEPT !.awaiting = TRUE,
                                  !.input = RunInput(r),
                                  !.seen = ActiveSession(r),
                                  !.client = pool.client]]
    /\ UNCHANGED <<engine, pc, http, arrivals>>

\* the call of request r comes back: the node finishes, its update is merged
\* into the channel values of r's run and the edge is followed, or what it
\* threw ends the run
Settle(r) ==
    /\ runs[r].awaiting
    /\ \E answer \in ConcurrentAnswers(runs[r].pc) :
        \E out \in {RunStep(runs[r].pc, phoenixEnabled, runs[r].seen,
                            runs[r].input, answer)} :
          runs' = [runs EXCEPT ![r] =
                     [@ EXCEPT !.awaiting = FALSE,
                               !.answers = Append(@, [node |-> runs[r].pc,
                                                      client |-> runs[r].client,
                                                      response |-> answer.response,
                                                      now |-> answer.now]),
                               !.log = @ \o out.log,
                               !.thrown = IF out.threw THEN out.error ELSE @,
                               !.state = IF out.threw THEN @ ELSE Merge(@, out.value),
                               !.pc = IF out.threw THEN "ABORTED"
                                      ELSE Edge(runs[r].pc,
                                                Merge(runs[r].state, out.value))]]
    /\ UNCHANGED <<engine, pc, http, arrivals, providers, created>>

ConcurrentNext ==
    \E r \in Requests :
        \/ Arrive(r)
        \/ Begin(r)
        \/ Settle(r)

ConcurrentSpec == ConcurrentInit /\ [][ConcurrentNext]_vars

-----------------------------------------------------------------------------
(* The telemetry wrappers on their own, applied to functions that return or *)
(* throw, as src/core/telemetry/__tests__/phoenix.test.ts applies them      *)

\* most wrapper calls of one behaviour
MaxWrapperCalls == 3

\* what the wrapped functions return
TestValues == {[data |-> "test-result"], [data |-> "done"]}

\* what they throw: Errors by their message, and a value that is no Error
TestErrors == {"test error"} \cup NonErrorValues

TestOutcomes == {Return(v) : v \in TestValues} \cup {Throw(e) : e \in TestErrors}

\* fn(span): sets an attribute on the span it is given, then returns or throws
SpanFns(name) ==
    { [span \in {NullSpan, name} |->
          WithLog(o, SetAttributes(span, [tool_name |-> "test"]))] :
      o \in TestOutcomes }

\* fn(): opens a span of its own under the session it runs in
SessionFns(enabled) ==
    { [session \in {NoSession} \cup SessionIds |->
          createSpan(enabled, session, "test-span", <<>>, f)] :
      f \in SpanFns("test-span") }

\* most calls of initPhoenix at startup
MaxInitCalls == 2

\* config.telemetry.phoenixEndpoint: not configured, or a URL
PhoenixEndpoints == {"undefined", "http://localhost:6006"}

\* what register(...) does when it is called
RegisterOutcomes == {"returns", "throws"}

\* the message of what register throws
RegisterError == "Failed to register"

\* faulty variant: tracing is marked enabled before register has returned
initPhoenixEnablesFirst(enabled, endpoint, register) ==
    IF ~TruthyString(endpoint)
    THEN [threw |-> FALSE, error |-> "none", enabled |-> enabled, registered |-> FALSE]
    ELSE [threw |-> FALSE, error |-> "none", enabled |-> TRUE, registered |-> TRUE]

\* faulty variant: register is called outside the try
initPhoenixNoCatch(enabled, endpoint, register) ==
    IF ~TruthyString(endpoint)
    THEN [threw |-> FALSE, error |-> "none", enabled |-> enabled, registered |-> FALSE]
    ELSE IF register = "throws"
    THEN [threw |-> TRUE, error |-> RegisterError, enabled |-> enabled,
          registered |-> TRUE]
    ELSE [threw |-> FALSE, error |-> "none", enabled |-> TRUE, registered |-> TRUE]

\* initPhoenix on the module's phoenixEnabled: whether it threw, the flag
\* after it, and whether it called register
initPhoenix(enabled, endpoint, register) ==
    IF ~TruthyString(endpoint)
    THEN [threw |-> FALSE, error |-> "none", enabled |-> enabled, registered |-> FALSE]
    ELSE IF register = "throws"
    THEN [threw |-> FALSE, error |-> "none", enabled |-> enabled,
          registered |-> TRUE]
    ELSE [threw |-> FALSE, error |-> "none", enabled |-> TRUE, registered |-> TRUE]

\* the module as loaded: let phoenixEnabled = false
TelemetryInit ==
    /\ \E q \in Queries, sid \in SessionIds : state = createInitialState(q, sid)
    /\ pc = "telemetry"
    /\ trace = <<>>
    /\ calls = <<>>
    /\ thrown = "none"
    /\ phoenixEnabled = FALSE
    /\ activeSession = NoSession
    /\ spans = <<>>
    /\ NoServer

\* one call of a wrapper: what it was given, what came out, what it logged
WrapperCall(wrapper, fn, result) ==
    /\ pc = "telemetry"
    /\ Len(trace) < MaxWrapperCalls
    /\ \E r \in {result} :
          /\ trace' = Append(trace, [node |-> wrapper, input |-> fn,
                                     threw |-> r.threw, error |-> r.error,
                                     update |-> r.value, log |-> r.log])
          /\ spans' = spans \o Tagged(r.log, Len(trace) + 1)
          /\ thrown' = IF r.threw THEN r.error ELSE "none"
    /\ UNCHANGED <<state, pc, calls, phoenixEnabled, activeSession, http, concurrent>>

CreateSpanCall ==
    \E fn \in SpanFns("test-span") :
        WrapperCall("createSpan", fn,
                    createSpan(phoenixEnabled, activeSession, "test-span", <<>>, fn))

CreateSessionSpanCall ==
    \E fn \in SpanFns("test-span") :
        WrapperCall("createSessionSpan", fn,
                    createSessionSpan(phoenixEnabled, activeSession, "test-span", <<>>, fn))

WithSessionContextCall ==
    \E sessionId \in SessionIds, fn \in SessionFns(phoenixEnabled) :
        WrapperCall("withSessionContext", fn,
                    withSessionContext(phoenixEnabled, activeSession, sessionId, fn))

\* initPhoenix() at startup (src/index.ts), before any wrapper is called
InitPhoenixCall ==
    /\ pc = "telemetry"
    /\ trace = <<>>
    /\ Len(calls) < MaxInitCalls
    /\ \E endpoint \in PhoenixEndpoints, register \in RegisterOutcomes :
        \E out \in {initPhoenix(phoenixEnabled, endpoint, register)} :
          /\ phoenixEnabled' = out.enabled
          /\ thrown' = IF out.threw THEN out.error ELSE thrown
          /\ calls' = Append(calls,
                [agent |-> "initPhoenix",
                 options |-> [endpoint |-> endpoint],
                 response |-> IF out.registered THEN register ELSE "not called",
                 threw |-> out.threw,
                 before |-> phoenixEnabled,
                 after |-> out.enabled])
    /\ UNCHANGED <<state, pc, trace, activeSession, spans, http, concurrent>>

TelemetryNext ==
    \/ InitPhoenixCall
    \/ CreateSpanCall
    \/ CreateSessionSpanCall
    \/ WithSessionContextCall

TelemetrySpec == TelemetryInit /\ [][TelemetryNext]_vars

-----------------------------------------------------------------------------
(* What the histories say about the run *)

\* the executions of node so far, those that threw included
Executions(node) == Cardinality({i \in DOMAIN trace : trace[i].node = node})

\* the executions of node so far that returned an update
Completed(node) ==
    Cardinality({i \in DOMAIN trace : trace[i].node = node /\ ~trace[i].threw})

\* the collaborator calls made for agent so far
CallsOf(agent) == Cardinality({i \in DOMAIN calls : calls[i].agent = agent})

IsCritique(e) == e.node = "critic" /\ ~e.threw

\* the critique executions that returned, in order
Critiques == SelectSeq(trace, IsCritique)

LastStep == trace[Len(trace)]

\* the termination predicate as section 4.5 of the specification writes it
Terminate(s) ==
    \/ s.qualityScore.kind # "undef" /\ JsGeq(s.qualityScore, Num(QUALITY_THRESHOLD))
    \/ s.iterations >= MAX_ITERATIONS

-----------------------------------------------------------------------------
(* C1.  Termination: in a run started with iterations = 0 in which every    *)
(* collaborator call returns (none rejects into the engine), whatever the   *)
(* critiques answer, the run eventually reaches DONE; and no run executes   *)
(* the critique more than 1 + MAX_ITERATIONS times.                         *)
C1_Termination ==
    /\ [](thrown = "none") => <>(pc = "DONE")
    /\ [](Executions("critic") <= 1 + MAX_ITERATIONS)

\* a run that ended after the most critiques, the last one malformed
C1_Witness ==
    /\ pc = "DONE"
    /\ thrown = "none"
    /\ Completed("critic") = MAX_ITERATIONS
    /\ calls[Len(calls)].response.text.json = "malformed"

(* C2.  In every reachable state iterations <= MAX_ITERATIONS, and the      *)
(* critique collaborator is never called a third time.                      *)
C2_IterationsBounded ==
    /\ state.iterations <= MAX_ITERATIONS
    /\ CallsOf("critic") <= MAX_ITERATIONS
    /\ Executions("critic") <= MAX_ITERATIONS

\* the counter does reach MAX_ITERATIONS
C2_Witness ==
    /\ state.iterations = MAX_ITERATIONS
    /\ CallsOf("critic") = MAX_ITERATIONS

(* C3.  Routing predicate: after every critique execution the engine routes *)
(* to DONE exactly when (qualityScore is defined and qualityScore >= 0.7)   *)
(* or (iterations >= MAX_ITERATIONS), to generator in every other case, and *)
(* never to classifier or retriever.                                        *)
C3_RoutingPredicate ==
    (trace # <<>> /\ IsCritique(LastStep)) =>
        /\ pc \in {"DONE", "generator"}
        /\ pc = "DONE" <=> Terminate(state)

\* a critique that scored 0 (defined, falsy) was routed back to generator
C3_Witness ==
    /\ trace # <<>> /\ IsCritique(LastStep)
    /\ state.qualityScore = Num(0)
    /\ pc = "generator"

(* C4.  The steps of a run execute one at a time in the order classifier,  *)
(* retriever, generator, critic, then (generator, critic) repeated; a step  *)
(* runs only after the one before it returned, on the state that holds that *)
(* step's update: the retriever sees the classifier's queryType, the critic *)
(* is handed the draftAnswer of the generation just before it.              *)
ExpectedNode(i) ==
    CASE i = 1 -> "classifier"
      [] i = 2 -> "retriever"
      [] i > 2 /\ i % 2 = 1 -> "generator"
      [] OTHER -> "critic"

C4_SequentialOrder ==
    /\ Len(calls) = Len(trace)
    /\ \A i \in DOMAIN trace :
        /\ trace[i].node = ExpectedNode(i)
        /\ calls[i].agent = trace[i].node
        /\ i > 1 =>
            /\ ~trace[i - 1].threw
            /\ \A k \in DOMAIN trace[i - 1].update :
                  trace[i].input[k] = trace[i - 1].update[k]
        /\ trace[i].node = "retriever" =>
              trace[i].input.queryType = trace[i - 1].update.queryType
        /\ trace[i].node = "critic" =>
              calls[i].options.answer = trace[i - 1].update.draftAnswer

\* a refinement cycle whose second draft differs from the first
C4_Witness ==
    /\ pc = "DONE"
    /\ Len(trace) = 6
    /\ trace[5].update.draftAnswer # trace[3].update.draftAnswer
    /\ calls[6].options.answer = trace[5].update.draftAnswer

(* C5.  In every run that reaches DONE, classification and retrieval have   *)
(* each executed exactly once and generation as often as critique; the      *)
(* queryType the classification set is never overwritten afterwards.        *)
C5_ClassifyRetrieveOnce ==
    /\ Completed("classifier") >= 1 => state.queryType = trace[1].update.queryType
    /\ pc = "DONE" =>
        /\ Executions("classifier") = 1
        /\ Executions("retriever") = 1
        /\ Executions("generator") = Executions("critic")
        /\ Executions("critic") >= 1

\* a run with a refinement cycle
C5_Witness ==
    /\ pc = "DONE"
    /\ Executions("critic") = 2
    /\ Executions("classifier") = 1
    /\ state.queryType = "analytical"

(* C6.  In every reachable state iterations is the number of critique       *)
(* executions completed so far: each critique, the malformed-output         *)
(* fallback included, adds exactly 1, and no other step writes iterations.  *)
C6_IterationsCountCritiques ==
    /\ state.iterations = Completed("critic")
    /\ \A i \in DOMAIN trace :
        ~trace[i].threw =>
            IF trace[i].node = "critic"
            THEN trace[i].update.iterations = trace[i].input.iterations + 1
            ELSE "iterations" \notin DOMAIN trace[i].update

\* a first critique that fell back on malformed output was counted
C6_Witness ==
    /\ Len(trace) = 4
    /\ calls[4].agent = "critic"
    /\ ~calls[4].response.threw
    /\ calls[4].response.text.json = "malformed"
    /\ state.iterations = 1

(* C7.  If the first critique returns a qualityScore >= 0.7, exactly 0.7    *)
(* included, the run is over after one generation and one critique, with    *)
(* iterations = 1, queryType the label the classification collaborator      *)
(* returned, and finalAnswer set.                                           *)
C7_FirstCritiquePasses ==
    (Len(Critiques) >= 1
        /\ JsGeq(Critiques[1].update.qualityScore, Num(QUALITY_THRESHOLD))) =>
        /\ pc = "DONE"
        /\ state.iterations = 1
        /\ Executions("generator") = 1
        /\ Executions("critic") = 1
        /\ calls[1].response.text.json = "object" =>
              state.queryType = calls[1].response.text.queryType
        /\ state.finalAnswer # "undefined"

\* the first critique scored exactly 0.7
C7_Witness ==
    /\ Len(Critiques) = 1
    /\ Critiques[1].update.qualityScore = Num(QUALITY_THRESHOLD)
    /\ pc = "DONE"
    /\ state.queryType = "factual"

(* C8.  Retry: if the first critique returns a qualityScore below 0.7 and   *)
(* the second one a qualityScore >= 0.7, the run is over after two          *)
(* generations and two critiques, with iterations = 2 and the qualityScore  *)
(* of the second critique.                                                  *)
C8_Retry ==
    (Len(Critiques) >= 2
        /\ JsLess(Critiques[1].update.qualityScore, Num(QUALITY_THRESHOLD))
        /\ JsGeq(Critiques[2].update.qualityScore, Num(QUALITY_THRESHOLD))) =>
        /\ pc = "DONE"
        /\ state.iterations = 2
        /\ Executions("generator") = 2
        /\ Executions("critic") = 2
        /\ state.qualityScore = Critiques[2].update.qualityScore

\* 0.5 first, 0.85 second
C8_Witness ==
    /\ Len(Critiques) = 2
    /\ Critiques[1].update.qualityScore = Num(50)
    /\ Critiques[2].update.qualityScore = Num(85)
    /\ pc = "DONE"

\* every critique of the run that returned gave qualityScore 0.5
AllCritiquesHalf ==
    \A i \in DOMAIN Critiques : Critiques[i].update.qualityScore = Num(50)

\* the last generation and the last critique of a finished run
LastGeneration == trace[Len(trace) - 1]
LastCritiqueCall == calls[Len(calls)]

(* C9 as the specification states it.  Forced termination: if every         *)
(* critique returns qualityScore = 0.5, the run ends with iterations = 2,   *)
(* the critique called exactly twice, a terminal qualityScore below 0.7,    *)
(* needsRefinement = true and a non-empty finalAnswer.                      *)
C9_AsStated ==
    (pc = "DONE" /\ AllCritiquesHalf) =>
        /\ state.iterations = 2
        /\ CallsOf("critic") = 2
        /\ JsLess(state.qualityScore, Num(QUALITY_THRESHOLD))
        /\ state.needsRefinement = "true"
        /\ state.finalAnswer \notin {"undefined", ""}

(* C9, amended.  Forced termination: if every critique returns              *)
(* qualityScore = 0.5, the run ends with iterations = 2, the critique       *)
(* called exactly twice, a terminal qualityScore below 0.7, and the text of *)
(* the last generation as finalAnswer (returned, not withheld); that        *)
(* finalAnswer is non-empty when the generation text is, and                *)
(* needsRefinement is true when the last critique reply was malformed or    *)
(* carried the score 0.5 and no refinement flag of false.                   *)
C9_ForcedTermination ==
    (pc = "DONE" /\ AllCritiquesHalf) =>
        /\ state.iterations = 2
        /\ CallsOf("critic") = 2
        /\ Executions("critic") = 2
        /\ JsLess(state.qualityScore, Num(QUALITY_THRESHOLD))
        /\ LastGeneration.node = "generator"
        /\ state.finalAnswer # "undefined"
        /\ state.finalAnswer = calls[Len(calls) - 1].response.text
        /\ calls[Len(calls) - 1].response.text # "" => state.finalAnswer # ""
        /\ (\/ LastCritiqueCall.response.text.json = "malformed"
            \/ /\ LastCritiqueCall.response.text.qualityScore = Num(50)
               /\ LastCritiqueCall.response.text.needsRefinement # "false")
           => state.needsRefinement = "true"

\* two critiques of 0.5 that ask for refinement, and a best-effort answer
C9_Witness ==
    /\ pc = "DONE"
    /\ AllCritiquesHalf
    /\ Len(Critiques) = 2
    /\ LastCritiqueCall.response.text.json = "object"
    /\ state.needsRefinement = "true"
    /\ state.finalAnswer = "Generated answer attempt 2"

\* the retrieval collaborator failed (fetch rejected, or the response was
\* not ok)
RetrievalFailed == Len(calls) >= 2 /\ calls[2].response.kind # "ok"

\* the message of the error hybridSearch throws for a failed call
FailureMessage(rag) ==
    CASE rag.kind = "network" -> rag.statusText
      [] rag.kind = "nonerror" -> "Retrieval failed"
      [] rag.kind = "http" /\ rag.statusText = "Service Unavailable" ->
            "Hybrid search failed: Service Unavailable"
      [] OTHER -> "Hybrid search failed: Gateway Timeout"

\* what holds from the failed retrieval on
C10_AfterFallback ==
    RetrievalFailed =>
        /\ ~trace[2].threw
        /\ state.retrievedChunks = [def |-> TRUE, v |-> <<>>]
        /\ state.retrievalScore.def /\ state.retrievalScore.n = 0
        /\ Len(state.errors) = 1
        /\ state.errors[1].agent = "retriever"
        /\ state.errors[1].message = FailureMessage(calls[2].response)
        /\ Len(trace) = 2 => (state.currentAgent = "retriever" /\ pc = "generator")
        /\ pc \in {"generator", "critic", "DONE", "ABORTED"}
        /\ pc = "ABORTED" => (thrown \in LLMErrors /\ Len(trace) > 2)
        /\ pc = "DONE" =>
            /\ state.finalAnswer # "undefined"
            /\ Executions("generator") >= 1
            /\ Executions("critic") >= 1

(* C10.  Retrieval fallback: when the retrieval collaborator throws, the    *)
(* retrieval step does not propagate; the state after it has                *)
(* retrievedChunks = [], retrievalScore = 0, currentAgent = retriever and   *)
(* exactly one entry in errors, of agent retriever; and the run goes on     *)
(* through generation and critique to DONE with a finalAnswer, unless a     *)
(* later language-generation call rejects.                                  *)
C10_RetrievalFallback ==
    /\ []C10_AfterFallback
    /\ RetrievalFailed ~> (pc = "DONE" \/ thrown # "none")

\* a run that finished after a 503 from the search service
C10_Witness ==
    /\ RetrievalFailed
    /\ calls[2].response.kind = "http"
    /\ pc = "DONE"
    /\ state.errors[1].message = "Hybrid search failed: Service Unavailable"
    /\ state.finalAnswer # "undefined"

-----------------------------------------------------------------------------
\* a call of the language-generation collaborator that threw
LLMCallThrew(i) == calls[i].agent # "retriever" /\ calls[i].response.threw

\* C11: when the language-generation collaborator throws during
\* classification, generation or critique (first pass or retry), the
\* invocation rejects with that very error, the throwing call is the last
\* step of the run, the state (errors included) is what it was before the
\* step, and the run has not ended in a terminal state.
C11_UnhandledPropagation ==
    \A i \in DOMAIN calls :
        LLMCallThrew(i) =>
            /\ i = Len(calls)
            /\ pc = "ABORTED"
            /\ thrown = calls[i].response.error
            /\ trace[i].threw
            /\ state = trace[i].input
            /\ state.errors = trace[i].input.errors
            /\ \A e \in DOMAIN state.errors : state.errors[e].agent = "retriever"

\* a generation retry threw while an earlier draft answer was in the state
C11_Witness ==
    /\ pc = "ABORTED"
    /\ Len(trace) = 5
    /\ LastStep.node = "generator"
    /\ LLMCallThrew(5)
    /\ state.finalAnswer # "undefined"
    /\ thrown = "Rate limit exceeded"

-----------------------------------------------------------------------------
\* the classification reply was a text JSON.parse cannot read
MalformedClassification ==
    /\ Len(calls) >= 1
    /\ ~calls[1].response.threw
    /\ calls[1].response.text.json = "malformed"

C12_AfterMalformed ==
    MalformedClassification =>
        /\ ~trace[1].threw
        /\ trace[1].update.queryType = "vague"
        /\ trace[1].update.classificationConfidence = Num(DEFAULT_CONFIDENCE)
        /\ state.queryType = "vague"
        /\ state.classificationConfidence = Num(DEFAULT_CONFIDENCE)
        /\ Len(trace) = 1 => pc = "retriever" /\ thrown = "none"
        /\ pc = "DONE" => state.finalAnswer # "undefined"

\* C12: a classification reply that cannot be parsed does not make the
\* classification throw: it yields queryType vague and confidence 0.5, and the
\* run goes on to DONE with a finalAnswer (unless a later call of the
\* language-generation collaborator throws).
C12_MalformedClassification ==
    /\ []C12_AfterMalformed
    /\ MalformedClassification ~> (pc = "DONE" \/ thrown # "none")

\* the run of the test: malformed classification, then a passing critique
C12_Witness ==
    /\ MalformedClassification
    /\ pc = "DONE"
    /\ state.queryType = "vague"
    /\ state.finalAnswer = "ML is a subset of AI [1]."
    /\ state.iterations = 1

-----------------------------------------------------------------------------
\* step i was a critique whose reply was a text JSON.parse cannot read
MalformedCritique(i) ==
    /\ calls[i].agent = "critic"
    /\ ~calls[i].response.threw
    /\ calls[i].response.text.json = "malformed"

\* critiques have run, and the reply to each was malformed
EveryCritiqueMalformed ==
    /\ \E i \in DOMAIN calls : calls[i].agent = "critic"
    /\ \A i \in DOMAIN calls : calls[i].agent = "critic" => MalformedCritique(i)

C13_AfterMalformed ==
    /\ \A i \in DOMAIN calls :
          MalformedCritique(i) =>
            /\ ~trace[i].threw
            /\ trace[i].update.qualityScore = Num(DEFAULT_QUALITY)
            /\ trace[i].update.needsRefinement = "true"
            /\ trace[i].update.refinementReason = "Failed to parse critique response"
            /\ trace[i].update.iterations = trace[i].input.iterations + 1
    /\ EveryCritiqueMalformed =>
          /\ state.needsRefinement = "true"
          /\ state.qualityScore = Num(DEFAULT_QUALITY)
          /\ state.iterations = Executions("critic")
          /\ pc = "DONE" <=> state.iterations = MAX_ITERATIONS
          /\ LastStep.node = "critic" /\ pc # "DONE" => pc = "generator"

\* C13: a critique reply that cannot be parsed does not make the critique
\* throw: it yields qualityScore 0.5, needsRefinement true and a refinement
\* reason, and still adds one to iterations; a run whose every critique reply
\* is malformed ends at iterations = 2 with needsRefinement true (unless the
\* language-generation collaborator throws before).
C13_MalformedCritique ==
    /\ []C13_AfterMalformed
    /\ EveryCritiqueMalformed ~>
          \/ pc = "DONE" /\ state.iterations = 2 /\ state.needsRefinement = "true"
          \/ thrown # "none"
          \/ ~EveryCritiqueMalformed

\* the run of two malformed critiques, ended by the cap
C13_Witness ==
    /\ EveryCritiqueMalformed
    /\ pc = "DONE"
    /\ Executions("critic") = 2
    /\ state.iterations = 2
    /\ state.needsRefinement = "true"
    /\ state.refinementReason = "Failed to parse critique response"

-----------------------------------------------------------------------------
\* the steps so far that were generations that returned
Generations == {i \in DOMAIN trace : trace[i].node = "generator" /\ ~trace[i].threw}

\* the most recent of them
LatestGeneration == CHOOSE i \in Generations : \A j \in Generations : j <= i

\* C14: in every reachable state draftAnswer equals finalAnswer; both are
\* undefined before the first generation and defined from it onward; every
\* generation, retries included, writes its text to both, so the finalAnswer
\* of every later state, the terminal one included, is the text of the most
\* recent generation whatever the critiques said.
C14_DraftIsFinal ==
    /\ state.draftAnswer = state.finalAnswer
    /\ Generations = {} <=> state.finalAnswer = "undefined"
    /\ \A i \in Generations :
          /\ trace[i].update.draftAnswer = calls[i].response.text
          /\ trace[i].update.finalAnswer = calls[i].response.text
    /\ Generations # {} =>
          state.finalAnswer = calls[LatestGeneration].response.text

\* a retry replaced the first answer, and the run ended on a failed critique
C14_Witness ==
    /\ pc = "DONE"
    /\ Cardinality(Generations) = 2
    /\ calls[3].response.text = "ML is a subset of AI [1]."
    /\ state.finalAnswer = "Generated answer attempt 2"
    /\ state.draftAnswer = "Generated answer attempt 2"
    /\ JsLess(state.qualityScore, Num(QUALITY_THRESHOLD))

-----------------------------------------------------------------------------
\* C15: in every reachable state retrievedChunks and retrievalScore are both
\* absent or both present: absent before the retrieval, present after it,
\* whether the search answered or the fallback of a failed search was taken.
C15_ChunksAndScoreTogether ==
    /\ state.retrievedChunks.def <=> state.retrievalScore.def
    /\ state.retrievedChunks.def <=> Completed("retriever") >= 1
    /\ \A i \in DOMAIN trace :
          trace[i].node = "retriever" =>
            /\ ~trace[i].threw
            /\ ~trace[i].input.retrievedChunks.def
            /\ ~trace[i].input.retrievalScore.def
            /\ trace[i].update.retrievedChunks.def
            /\ trace[i].update.retrievalScore.def

\* both present after a failed search took the fallback
C15_Witness ==
    /\ RetrievalFailed
    /\ state.retrievedChunks = [def |-> TRUE, v |-> <<>>]
    /\ state.retrievalScore = [def |-> TRUE, n |-> 0, d |-> 1]
    /\ Len(state.errors) = 1

-----------------------------------------------------------------------------
\* the errors after step i: the input of the next step, or the state now
ErrorsAfter(i) == IF i < Len(trace) THEN trace[i + 1].input.errors ELSE state.errors

\* step i was a retrieval whose search failed
FailedRetrieval(i) == calls[i].agent = "retriever" /\ calls[i].response.kind # "ok"

\* C16: errors is append-only: every step leaves the entries it found
\* unchanged and in order; only a retrieval whose search failed appends, one
\* entry of agent retriever; so in a run started with errors = [] the sequence
\* has at most one entry and every entry has agent retriever.
C16_ErrorsAppendOnly ==
    /\ \A i \in DOMAIN trace :
          LET before == trace[i].input.errors
              after == ErrorsAfter(i)
          IN  /\ Len(before) <= Len(after)
              /\ SubSeq(after, 1, Len(before)) = before
              /\ IF FailedRetrieval(i)
                 THEN /\ Len(after) = Len(before) + 1
                      /\ after[Len(after)].agent = "retriever"
                      /\ after[Len(after)].message = FailureMessage(calls[i].response)
                 ELSE after = before
    /\ Len(state.errors) <= 1
    /\ \A e \in DOMAIN state.errors : state.errors[e].agent = "retriever"
    /\ Len(state.errors) = Cardinality({i \in DOMAIN calls : FailedRetrieval(i)})

\* the entry of a failed retrieval is still there after a retry and the end
C16_Witness ==
    /\ pc = "DONE"
    /\ Len(trace) = 6
    /\ FailedRetrieval(2)
    /\ Len(state.errors) = 1
    /\ state.errors[1].agent = "retriever"
    /\ state.errors[1].message = "Hybrid search failed: Service Unavailable"

-----------------------------------------------------------------------------
\* the AgentState the run was started with
InitialState == IF trace = <<>> THEN state ELSE trace[1].input

\* the keys no step may write
Identifiers == {"query", "sessionId", "conversationId"}

\* C17: query, sessionId and conversationId are unchanged by every step: no
\* update of a step holds one of them, and every step's input and every
\* reachable state has the values of the initial AgentState.
C17_IdentifiersUnchanged ==
    /\ \A k \in Identifiers : state[k] = InitialState[k]
    /\ \A i \in DOMAIN trace :
          /\ \A k \in Identifiers : trace[i].input[k] = InitialState[k]
          /\ ~trace[i].threw => DOMAIN trace[i].update \cap Identifiers = {}

\* a run of the chat route for a conversation, after a retry and the end
C17_Witness ==
    /\ pc = "DONE"
    /\ Len(trace) = 6
    /\ InitialState.conversationId = "conv-1"
    /\ state.conversationId = "conv-1"
    /\ state.sessionId = "conv-1"
    /\ state.query = "What is machine learning?"

-----------------------------------------------------------------------------
\* what wrapper call e came out with
WrapperOutcome(e) == [threw |-> e.threw, error |-> e.error, value |-> e.update]

\* fn called directly, as wrapper call e would call it with tracing disabled:
\* on the null handle, or under the session that is ambient already
DirectCall(e) ==
    IF e.node = "withSessionContext" THEN e.input[activeSession] ELSE e.input[NullSpan]

\* the calls of fn that wrapper call e made itself
OwnCalls(e) ==
    {j \in DOMAIN e.log :
        /\ e.log[j].op = "call"
        /\ e.log[j].wrapper = IF e.node = "withSessionContext"
                              THEN "withSessionContext" ELSE "test-span"
        /\ e.node = "withSessionContext" => e.log[j].span = NullSpan /\ j = 1}

\* C18: with tracing disabled, createSpan and createSessionSpan call fn
\* exactly once, with the null span handle, and withSessionContext calls fn
\* exactly once; each returns what fn returns and throws what fn throws, no
\* span is started, and nothing is logged but the call and what fn did.
C18_DisabledPassthrough ==
    (pc = "telemetry" /\ ~phoenixEnabled) =>
        \A i \in DOMAIN trace :
            LET e == trace[i]
            IN  /\ WrapperOutcome(e) = Outcome(DirectCall(e))
                /\ Cardinality(OwnCalls(e)) = 1
                /\ e.log[1].op = "call"
                /\ e.node # "withSessionContext" => e.log[1].span = NullSpan
                /\ e.log[1].session = activeSession
                /\ SubSeq(e.log, 2, Len(e.log)) = DirectCall(e).log
                /\ \A j \in DOMAIN e.log : e.log[j].op = "call"

\* each wrapper was called with tracing disabled: one fn threw a value that
\* is no Error, one threw an Error, one returned
C18_Witness ==
    /\ pc = "telemetry"
    /\ ~phoenixEnabled
    /\ Len(trace) = 3
    /\ trace[1].node = "createSpan" /\ trace[1].threw
    /\ trace[1].error \in NonErrorValues
    /\ trace[2].node = "createSessionSpan" /\ trace[2].threw
    /\ trace[2].error = "test error"
    /\ trace[3].node = "withSessionContext" /\ ~trace[3].threw
    /\ trace[3].update = [data |-> "test-result"]
    /\ thrown = "none"

-----------------------------------------------------------------------------
\* the positions of spans where a span is started
Started == {i \in DOMAIN spans : spans[i].event.op = "start"}

\* the events with operation op on the span started at position i
EventsOn(i, op) ==
    {j \in DOMAIN spans :
        /\ spans[j].step = spans[i].step
        /\ spans[j].event.op = op
        /\ spans[j].event.span = spans[i].event.span}

C19_SpanOfCall(i) ==
    LET e == trace[i]
        mine == {s \in Started : spans[s].step = i}
    IN  /\ Cardinality(mine) = 1
        /\ \A s \in mine :
              /\ Cardinality(EventsOn(s, "end")) = 1
              /\ \A j \in EventsOn(s, "end") :
                    /\ j > s
                    /\ \A k \in DOMAIN spans :
                          (spans[k].step = i /\ spans[k].event.op # "call") => k <= j
              /\ Cardinality(EventsOn(s, "setStatus")) = 1
              /\ \A j \in EventsOn(s, "setStatus") :
                    spans[j].event.code = IF e.threw THEN 2 ELSE 0
              /\ Cardinality(EventsOn(s, "recordException")) = IF e.threw THEN 1 ELSE 0
              /\ \A j \in EventsOn(s, "recordException") :
                    /\ spans[j].event.message = e.error
                    /\ \A k \in EventsOn(s, "end") : j < k
        /\ e.node # "withSessionContext" =>
              WrapperOutcome(e) = Outcome(e.input["test-span"])
        /\ e.threw => thrown = e.error \/ i < Len(trace)

\* C19: with tracing enabled, every span createSpan or createSessionSpan
\* starts is ended exactly once, after everything else done to it, whether fn
\* returned or threw; what fn threw is recorded on the span before the end and
\* thrown again as it was; what fn returned is returned as it was.
C19_EnabledSpansClosed ==
    (pc = "telemetry" /\ phoenixEnabled) =>
        /\ \A i \in DOMAIN trace : C19_SpanOfCall(i)
        /\ Cardinality(Started) = Len(trace)
        /\ Cardinality({j \in DOMAIN spans : spans[j].event.op = "end"}) = Len(trace)

\* with tracing enabled one fn threw an Error, one a value that is no Error,
\* one returned; three spans were started and three ended
C19_Witness ==
    /\ pc = "telemetry"
    /\ phoenixEnabled
    /\ Len(trace) = 3
    /\ trace[1].node = "createSpan" /\ trace[1].threw
    /\ trace[1].error = "test error"
    /\ trace[2].node = "createSessionSpan" /\ trace[2].threw
    /\ trace[2].error \in NonErrorValues
    /\ trace[3].node = "createSpan" /\ ~trace[3].threw
    /\ trace[3].update = [data |-> "done"]
    /\ Cardinality(Started) = 3
    /\ spans[Len(spans)].event = EndEvent("test-span")

-----------------------------------------------------------------------------
\* the time the retrieval of step i read: the timestamp of the entry it
\* appended, any time when it appended none
TimeOf(i) ==
    IF "errors" \in DOMAIN trace[i].update
    THEN trace[i].update.errors[Len(trace[i].update.errors)].timestamp
    ELSE CHOOSE now \in Timestamps : TRUE

\* step i run again on its input and its collaborator's response, inside its
\* spans with tracing enabled or disabled
StepTraced(enabled, i) ==
    LET s == trace[i].input
        response == calls[i].response
        session == SessionWithin(enabled, NoSession, s.sessionId)
    IN  CASE trace[i].node = "classifier" -> classifier_node(enabled, session, s, response)
          [] trace[i].node = "retriever" ->
                retriever_node(enabled, session, s, response, TimeOf(i))
          [] trace[i].node = "generator" -> generator_node(enabled, session, s, response)
          [] trace[i].node = "critic" -> critic_node(enabled, session, s, response)

\* the node of step i as graph.ts has it without any span
StepUntraced(i) ==
    LET s == trace[i].input
        response == calls[i].response
    IN  CASE trace[i].node = "classifier" -> classifierNode(s, response)
          [] trace[i].node = "retriever" -> retrieverNode(s, response, TimeOf(i))
          [] trace[i].node = "generator" -> generatorNode(s, response)
          [] trace[i].node = "critic" -> criticNode(s, response)

\* C20: tracing is transparent to control flow: on the same input and the
\* same collaborator response the step just run returns the same update, or
\* throws the same error, with tracing enabled, with tracing disabled and
\* without any span; the run goes on to the same node, and its outcome (the
\* state, or the error that ended it) is the one of the untraced step.  Every
\* earlier step was the step just run in an earlier state.
C20_TracingTransparent ==
    (pc # "telemetry" /\ trace # <<>>) =>
        LET i == Len(trace)
            traced == Outcome(StepTraced(TRUE, i))
            plain == Outcome(StepTraced(FALSE, i))
            untraced == StepUntraced(i)
        IN  /\ traced = plain
            /\ plain = untraced
            /\ trace[i].threw = untraced.threw
            /\ trace[i].update = untraced.value
            /\ IF untraced.threw
               THEN /\ pc = "ABORTED"
                    /\ thrown = untraced.error
                    /\ state = trace[i].input
               ELSE /\ state = Merge(trace[i].input, untraced.value)
                    /\ pc = Edge(trace[i].node, state)
                    /\ thrown = "none"
            /\ i > 1 => trace[i].input = Merge(trace[i - 1].input, trace[i - 1].update)

\* with tracing enabled a generation retry threw: the error went through the
\* span of the call and the span of the node and ended the run as it was
C20_Witness ==
    /\ phoenixEnabled
    /\ pc = "ABORTED"
    /\ Len(trace) = 5
    /\ thrown = "LLM request timeout after 30000ms"
    /\ Cardinality({j \in DOMAIN spans :
                       /\ spans[j].step = 5
                       /\ spans[j].event.op = "recordException"
                       /\ spans[j].event.message = thrown}) = 2
    /\ state.iterations = 1

-----------------------------------------------------------------------------
\* the events of step i, in the order they happened
StepLog(i) == SelectSeq(spans, LAMBDA e : e.step = i)

\* the span a node runs in, and the span its text completion call runs in
NodeSpan(node) ==
    CASE node = "classifier" -> "classifier_node"
      [] node = "retriever" -> "retriever_node"
      [] node = "generator" -> "generator_node"
      [] node = "critic" -> "critic_node"

CallSpan(node) ==
    CASE node = "classifier" -> "classify_llm_call"
      [] node = "retriever" -> "none"
      [] node = "generator" -> "generate_llm_call"
      [] node = "critic" -> "critique_llm_call"

\* the positions of log where the span called name is started, is ended, and
\* where fn is called with it
OpsOn(log, name, op) ==
    {k \in DOMAIN log : log[k].event.op = op /\ log[k].event.span = name}

\* the span called name is started once in log, ended once after that, and
\* its fn is called between the two
SpanAround(log, name) ==
    /\ Cardinality(OpsOn(log, name, "start")) = 1
    /\ Cardinality(OpsOn(log, name, "end")) = 1
    /\ \E a \in OpsOn(log, name, "start"), c \in OpsOn(log, name, "call"),
          b \in OpsOn(log, name, "end") : a < c /\ c < b

C21_StepInSpans(i) ==
    LET node == trace[i].node
        log == StepLog(i)
        names == {log[k].event.span : k \in DOMAIN log} \ {NullSpan}
    IN  /\ names = {NodeSpan(node), CallSpan(node)} \ {"none"}
        /\ \A name \in names : SpanAround(log, name)
        /\ log[1].event.op = "start" /\ log[1].event.span = NodeSpan(node)
        /\ log[Len(log)] = [step |-> i, event |-> EndEvent(NodeSpan(node))]
        /\ \A k \in DOMAIN log : log[k].event.span # NullSpan
        /\ \A k \in OpsOn(log, CallSpan(node), "call") :
              \E c \in OpsOn(log, NodeSpan(node), "call") : c < k

\* C21: with tracing enabled, every step and every collaborator call of a
\* run happens inside a span opened before it and closed after it: the step
\* in the span of its node, which is the first and the last event of the
\* step, the text completion call in a span of its own that opens and closes
\* within the node's span (the retrieval call has the node's span only);
\* every span started is ended once, after its fn was called, so that none
\* is open when the run is at DONE or ABORTED. Stated of the last step of the
\* history, the earlier steps having been the last step in earlier states.
C21_SpansNested ==
    (pc # "telemetry" /\ phoenixEnabled /\ trace # <<>>) =>
        /\ C21_StepInSpans(Len(trace))
        /\ spans[Len(spans)].step = Len(trace)
        /\ \A k \in DOMAIN spans : spans[k].step = 0 => k = 1

\* a traced run of six steps: eleven spans, the last one ended, and one that
\* ended with the error that aborted the run
C21_Witness ==
    /\ phoenixEnabled
    /\ pc = "ABORTED"
    /\ Len(trace) = 6
    /\ Cardinality(Started) = 11
    /\ spans[Len(spans)].event = EndEvent("critic_node")
    /\ \E k \in DOMAIN spans :
          /\ spans[k].step = 6
          /\ spans[k].event.op = "recordException"
          /\ spans[k].event.span = "critique_llm_call"

-----------------------------------------------------------------------------
\* the request got to the middleware or handler called name
Reached(name) == \E i \in DOMAIN served : served[i] = name

UnderApiV1 == request.path \in {"/api/v1/chat", "/api/v1/chat/stream"}

\* the server is done with the request
Answered == res # NoResponse

\* the engine has not been touched: no step, no collaborator call, no span
EngineIdle == trace = <<>> /\ calls = <<>> /\ spans = <<>>

\* C26: a request to POST /api/v1/chat or POST /api/v1/chat/stream whose
\* body has no query or an empty one never makes the engine run a step or
\* call a collaborator, and once it has reached its handler it is answered
\* with status 400 and the error 'Query is required'.
C26_QueryRequired ==
    (UnderApiV1 /\ request.body.query \in {"undefined", ""}) =>
        /\ EngineIdle
        /\ pc \in {"server", "chat", "stream", "RESPONDED"}
        /\ (Reached("chat") \/ Reached("stream")) =>
              res = [status |-> 400, body |-> [error |-> "Query is required"]]

\* the stream route turned down an empty query
C26_Witness ==
    /\ request.path = "/api/v1/chat/stream"
    /\ request.body.query = ""
    /\ Reached("stream")
    /\ res.status = 400
    /\ pc = "RESPONDED"

\* the collaborator calls for text completion that threw
FailedCompletions ==
    {i \in DOMAIN calls : calls[i].agent # "retriever" /\ calls[i].response.threw}

\* C27: when the run POST /api/v1/chat started is rejected because a text
\* completion call failed, the answer has status 500 and a body that is the
\* error field alone, with the message of the failure; an answer with status
\* 200 is given to a run that reached DONE without such a failure only.
C27_FailureIs500 ==
    request.path = "/api/v1/chat" =>
        /\ (pc = "ABORTED") =>
              /\ FailedCompletions = {Len(calls)}
              /\ res.status = 500
              /\ res.status >= 400
              /\ DOMAIN res.body = {"error"}
              /\ res.body.error = calls[Len(calls)].response.error
        /\ (res.status = 200) => (pc = "DONE" /\ FailedCompletions = {})
        /\ FailedCompletions # {} => pc = "ABORTED"

\* the generation of the retry hit the rate limit
C27_Witness ==
    /\ request.path = "/api/v1/chat"
    /\ pc = "ABORTED"
    /\ Len(trace) = 5
    /\ res = [status |-> 500, body |-> [error |-> "Rate limit exceeded"]]

\* the retrieval calls the service answered with 503 or 504
UnavailableRetrievals ==
    {i \in DOMAIN calls : calls[i].agent = "retriever" /\ calls[i].response.kind = "http"}

\* C28: when the retrieval service answers 503 Service Unavailable or 504
\* Gateway Timeout and every text completion call works, POST /api/v1/chat
\* returns an error response with status >= 400.
C28_RetrievalFailureIsError ==
    (/\ request.path = "/api/v1/chat"
     /\ UnavailableRetrievals # {}
     /\ FailedCompletions = {}
     /\ pc = "DONE") =>
        res.status >= 400

\* C29: with API_KEY configured, a request to a route under /api/v1 whose
\* X-API-Key header is missing or is not the configured key is answered 401
\* 'Invalid or missing API key' by the middleware: it reaches no handler and
\* the engine runs no step; a request with the configured key goes on to the
\* handler of its route; a request to /health is answered 200 by the health
\* handler whatever its key, and does not pass the middleware.
C29_KeyChecked ==
    (API_KEY = "test-secret-key" /\ pc # "server") =>
        /\ (UnderApiV1 /\ request.apiKey # "test-secret-key") =>
              /\ res = [status |-> 401,
                        body |-> [error |-> "Invalid or missing API key"]]
              /\ served = <<"apiKeyAuth">>
              /\ EngineIdle
              /\ pc = "RESPONDED"
        /\ (UnderApiV1 /\ request.apiKey = "test-secret-key") =>
              /\ served[1] = "apiKeyAuth"
              /\ res.status # 401
              /\ pc = HandlerOf(request.path) \/ Reached(HandlerOf(request.path))
        /\ (request.path = "/health") =>
              /\ served = <<"health">>
              /\ res = [status |-> 200, body |-> [status |-> "healthy"]]

\* a chat request with another key than the configured one was turned away
C29_Witness ==
    /\ API_KEY = "test-secret-key"
    /\ request.path = "/api/v1/chat"
    /\ request.apiKey = "wrong-key"
    /\ request.body.query \in Queries
    /\ res.status = 401

\* the request has the configured key: there is one, and X-API-Key is it
ValidKey == API_KEY \notin {"undefined", ""} /\ request.apiKey = API_KEY

-----------------------------------------------------------------------------
\* the requests whose handler has begun
Arrived == {r \in Requests : runs[r].pc # "chat"}

\* the requests whose run is over
Finished == {r \in Requests : runs[r].pc \in {"DONE", "ABORTED"}}

\* the spans started for request r, as positions of its log
StartedFor(r) == {k \in DOMAIN runs[r].log : runs[r].log[k].op = "start"}

\* C22: every span created while withSessionContext(sessionId, fn) runs fn
\* carries session.id = sessionId, the span of a node and the span of the
\* text completion call inside it alike; with two requests in flight no span
\* of one carries the session id of the other, and fn itself runs in that
\* session.
C22_SessionInherited ==
    \A r \in Arrived :
        /\ runs[r].log[1] = CallEvent("withSessionContext", NullSpan, runs[r].sessionId)
        /\ \A k \in StartedFor(r) :
              /\ runs[r].log[k].session = runs[r].sessionId
              /\ \A q \in Requests \ {r} :
                    runs[q].sessionId # runs[r].sessionId =>
                        runs[r].log[k].session # runs[q].sessionId

\* two requests of different sessions are both waiting for a call to come
\* back, each with spans of two steps behind it
C22_Witness ==
    /\ runs["req-1"].sessionId = "conv-1"
    /\ runs["req-2"].sessionId = "uuid-2"
    /\ \A r \in Requests :
          /\ runs[r].awaiting
          /\ runs[r].pc = "generator"
          /\ Cardinality(StartedFor(r)) = 3

\* the createLLMProvider calls made for model id m
CreatedFor(m) == {i \in DOMAIN created : created[i] = m}

\* C23: across the interleavings of the getLLM calls of requests in flight
\* together, createLLMProvider is called at most once for a model id; the
\* pool's entry for a model id is the provider that call made, from then on
\* (it is not replaced and not removed), and every getLLM call for the model
\* id gets that provider.
C23_OneProviderPerModel ==
    /\ \A m \in ModelIds :
          /\ Cardinality(CreatedFor(m)) <= 1
          /\ CreatedFor(m) = IF providers[m] = 0 THEN {} ELSE {providers[m]}
    /\ \A r \in Requests :
          /\ \A i \in DOMAIN runs[r].answers :
                LET m == ModelOf(runs[r].answers[i].node)
                IN  m # "none" =>
                        /\ runs[r].answers[i].client # 0
                        /\ runs[r].answers[i].client = providers[m]
          /\ (runs[r].awaiting /\ ModelOf(runs[r].pc) # "none") =>
                /\ runs[r].client # 0
                /\ runs[r].client = providers[ModelOf(runs[r].pc)]

\* both requests are waiting for their first text completion, asked of the
\* same provider, and one provider has been created
C23_Witness ==
    /\ created = <<"gpt-5-mini">>
    /\ \A r \in Requests :
          /\ runs[r].pc = "classifier"
          /\ runs[r].awaiting
          /\ runs[r].client = 1

\* the node named node on state s, given the answer of its collaborator, as a
\* run on its own executes it
StepAlone(node, s, answer) ==
    CASE node = "classifier" -> classifierNode(s, answer.response)
      [] node = "retriever" -> retrieverNode(s, answer.response, answer.now)
      [] node = "generator" -> generatorNode(s, answer.response)
      [] node = "critic" -> criticNode(s, answer.response)

\* where a run on its own is, started at node at on state s, after its
\* collaborators gave the answers in order
RECURSIVE RunAlone(_, _, _)
RunAlone(s, at, answers) ==
    IF answers = <<>> \/ at \notin AgentNames THEN [state |-> s, pc |-> at]
    ELSE LET out == StepAlone(at, s, Head(answers))
         IN  IF out.threw THEN [state |-> s, pc |-> "ABORTED"]
             ELSE RunAlone(Merge(s, out.value), Edge(at, Merge(s, out.value)),
                           Tail(answers))

\* what the handler of request r gives graph.invoke
InitialStateOf(r) ==
    ChatInput(runs[r].request.query, runs[r].sessionId, runs[r].request.conversationId)

\* C24: the requests in flight together do not touch each other's run: at
\* every moment the AgentState of a run and the place the run is at are what
\* a run on its own has after the same collaborator answers, whatever the
\* other request did in between; so it ends in the terminal state it would
\* have ended in alone.
C24_RunsIndependent ==
    \A r \in Arrived :
        /\ \A i \in DOMAIN runs[r].answers :
              runs[r].answers[i].node \in AgentNames
        /\ [state |-> runs[r].state, pc |-> runs[r].pc]
              = RunAlone(InitialStateOf(r), "classifier", runs[r].answers)

\* req-2 arrived first and is still waiting for its critique while req-1,
\* arrived after it, has run its six steps to the end
C24_Witness ==
    /\ arrivals = <<"req-2", "req-1">>
    /\ runs["req-1"].pc = "DONE"
    /\ Len(runs["req-1"].answers) = 6
    /\ runs["req-1"].state.errors # <<>>
    /\ runs["req-2"].pc = "critic"
    /\ runs["req-2"].awaiting
    /\ runs["req-2"].state.errors = <<>>

\* the answers without the time that was read
Responses(r) == [i \in DOMAIN runs[r].answers |-> runs[r].answers[i].response]

\* the state without the timestamps of its errors entries
WithoutTimestamps(s) ==
    [s EXCEPT !.errors = [i \in DOMAIN s.errors |->
                            [agent |-> s.errors[i].agent,
                             message |-> s.errors[i].message]]]

\* C25: two runs started on the same initial state whose collaborators give
\* the same answers call by call end in terminal states that are equal in
\* every field, the timestamps of the errors entries aside, at the same
\* place and with the same error thrown.
C25_Deterministic ==
    \A r \in Finished, q \in Finished :
        (InitialStateOf(r) = InitialStateOf(q) /\ Responses(r) = Responses(q)) =>
            /\ WithoutTimestamps(runs[r].state) = WithoutTimestamps(runs[q].state)
            /\ runs[r].pc = runs[q].pc
            /\ runs[r].thrown = runs[q].thrown

\* two runs of the same conversation with the same answers, a failed
\* retrieval among them, that read different times: equal but for the
\* timestamp
C25_Witness ==
    /\ Finished = Requests
    /\ InitialStateOf("req-1") = InitialStateOf("req-2")
    /\ Responses("req-1") = Responses("req-2")
    /\ Len(runs["req-1"].answers) = 6
    /\ runs["req-1"].state # runs["req-2"].state
    /\ runs["req-1"].state.errors[1].timestamp # runs["req-2"].state.errors[1].timestamp

-----------------------------------------------------------------------------
\* C31: once the classification step has run, queryType is one of the five
\* labels, whatever text the classification collaborator returned: a label
\* among the five, another label or none, or a text that does not parse.
C31_QueryTypeIsLabel ==
    (pc # "telemetry" /\ Completed("classifier") > 0) =>
        state.queryType \in QueryTypes

\* a JavaScript number within [0, 1]
InUnitRange(x) == IsNum(x) /\ 0 <= x.v /\ x.v <= 100

\* C32: whenever classificationConfidence and qualityScore are defined in
\* the state they lie within [0, 1], for every parsed output of the
\* collaborator, the value out of range or missing included.
C32_ScoresInUnitRange ==
    pc # "telemetry" =>
        /\ state.classificationConfidence.kind # "undef" =>
              InUnitRange(state.classificationConfidence)
        /\ state.qualityScore.kind # "undef" => InUnitRange(state.qualityScore)

\* the critique of step i parsed to an object without a refinement flag
FlagAbsent(i) ==
    /\ trace[i].node = "critic"
    /\ ~trace[i].threw
    /\ calls[i].response.text.json = "object"
    /\ calls[i].response.text.needsRefinement = "undefined"

\* C33: when the critique output parses and carries no refinement flag, the
\* needsRefinement the critique step returns is (qualityScore < 0.7) for the
\* qualityScore it returns, also when the output carries no qualityScore.
C33_FlagDerivedFromScore ==
    pc # "telemetry" =>
        \A i \in DOMAIN trace :
            FlagAbsent(i) =>
                trace[i].update.needsRefinement =
                    IF JsLess(trace[i].update.qualityScore, Num(QUALITY_THRESHOLD))
                    THEN "true" ELSE "false"

-----------------------------------------------------------------------------
\* the retrieval of step i succeeded: the service answered ok
Retrieved(i) ==
    /\ trace[i].node = "retriever"
    /\ ~trace[i].threw
    /\ calls[i].response.kind = "ok"

\* the results the service answered step i with, none if its body has no list
ResultsOf(i) ==
    IF calls[i].response.hasResults THEN calls[i].response.results ELSE <<>>

\* the score a result goes by: hybrid, else similarity, else 0
ExpectedScore(r) ==
    IF r.hybrid_score.kind # "undef" THEN r.hybrid_score.v
    ELSE IF r.similarity_score.kind # "undef" THEN r.similarity_score.v
    ELSE 0

\* the sum of the scores of the first k chunks
RECURSIVE ScoreTotal(_, _)
ScoreTotal(chunks, k) ==
    IF k = 0 THEN 0 ELSE chunks[k].score + ScoreTotal(chunks, k - 1)

\* C34: a successful retrieval maps the results to chunks in the same order
\* and number, the score of each chunk being the hybrid score if present,
\* else the similarity score, else 0; retrievalScore is the arithmetic mean
\* of the chunk scores, 0 for an empty result list; an empty result list is
\* a success and leaves errors as they were.
C34_ChunksAndMean ==
    pc # "telemetry" =>
        \A i \in DOMAIN trace :
            Retrieved(i) =>
                LET results == ResultsOf(i)
                    update == trace[i].update
                    chunks == update.retrievedChunks.v
                    score == update.retrievalScore
                IN  /\ update.retrievedChunks.def
                    /\ Len(chunks) = Len(results)
                    /\ \A k \in DOMAIN results :
                          /\ chunks[k].chunkId = results[k].chunk_id
                          /\ chunks[k].content = results[k].content
                          /\ chunks[k].score = ExpectedScore(results[k])
                    /\ score.def
                    /\ score.d > 0
                    /\ IF results = <<>> THEN score.n = 0
                       ELSE score.n * Len(chunks) = ScoreTotal(chunks, Len(chunks)) * score.d
                    /\ "errors" \notin DOMAIN update
                    /\ state.errors = trace[i].input.errors

\* two results, the first with a hybrid score and the second with no score:
\* the mean is 0.8 / 2
C34_Witness ==
    /\ pc = "generator"
    /\ Len(trace) = 2
    /\ Retrieved(2)
    /\ Len(ResultsOf(2)) = 2
    /\ state.retrievedChunks.v[1].score = 80
    /\ state.retrievedChunks.v[2].score = 0
    /\ state.retrievalScore.n * 2 = 80 * state.retrievalScore.d
    /\ state.errors = <<>>

-----------------------------------------------------------------------------
\* the ids crypto.randomUUID() gives out
GeneratedIds == {RandomUUID(r) : r \in Requests}

\* C35: for a chat request the sessionId written into the initial AgentState
\* is the value the ambient session context is set up with; it is the
\* request's conversationId when that is a non-empty string, and an id
\* generated for this request when conversationId is absent or empty.
C35_SessionIdResolved ==
    \A r \in Arrived :
        LET conversationId == runs[r].request.conversationId
        IN  /\ runs[r].state.sessionId = runs[r].sessionId
            /\ runs[r].context = runs[r].state.sessionId
            /\ runs[r].log[1] =
                  CallEvent("withSessionContext", NullSpan, runs[r].state.sessionId)
            /\ runs[r].state.conversationId = conversationId
            /\ conversationId \notin {"undefined", ""} =>
                  runs[r].state.sessionId = conversationId
            /\ conversationId \in {"undefined", ""} =>
                  /\ runs[r].state.sessionId \in GeneratedIds
                  /\ \A q \in Arrived \ {r} :
                        runs[q].state.sessionId # runs[r].state.sessionId

\* one request with an empty conversationId, one with none: each runs under
\* an id of its own; both have finished their first step
C35_Witness ==
    /\ runs["req-1"].request.conversationId = ""
    /\ runs["req-2"].request.conversationId = "undefined"
    /\ runs["req-1"].state.sessionId = "uuid-1"
    /\ runs["req-2"].state.sessionId = "uuid-2"
    /\ \A r \in Requests : runs[r].pc = "retriever"

-----------------------------------------------------------------------------
\* the initPhoenix calls that registered: an endpoint is configured and
\* register returned
Registrations ==
    {i \in DOMAIN calls :
        /\ calls[i].options.endpoint # "undefined"
        /\ calls[i].response = "returns"}

-----------------------------------------------------------------------------
\* where the run went after step i
FollowedBy(i) == IF i < Len(trace) THEN trace[i + 1].node ELSE pc

\* the state the edge out of step i was decided on
StateAfter(i) == Merge(trace[i].input, trace[i].update)

(* C37.  The routing depends on qualityScore and iterations only, never on  *)
(* needsRefinement: after a critique that returned, the run is over exactly *)
(* when the score is at least 0.7 or iterations has reached                 *)
(* MAX_ITERATIONS, and goes back to the generation otherwise; so a score    *)
(* below 0.7 with needsRefinement = false still loops while iterations is   *)
(* below MAX_ITERATIONS, and a score of at least 0.7 with needsRefinement = *)
(* true still ends the run.                                                 *)
C37_RouteIgnoresFlag ==
    \A i \in DOMAIN trace :
        IsCritique(trace[i]) =>
            LET score == trace[i].update.qualityScore
                iterations == StateAfter(i).iterations
            IN  /\ FollowedBy(i) \in {"DONE", "generator"}
                /\ FollowedBy(i) = "DONE" <=>
                      \/ JsGeq(score, Num(QUALITY_THRESHOLD))
                      \/ iterations >= MAX_ITERATIONS
                /\ (JsLess(score, Num(QUALITY_THRESHOLD))
                       /\ iterations < MAX_ITERATIONS
                       /\ trace[i].update.needsRefinement = "false")
                      => FollowedBy(i) = "generator"
                /\ (JsGeq(score, Num(QUALITY_THRESHOLD))
                       /\ trace[i].update.needsRefinement = "true")
                      => /\ i = Len(trace)
                         /\ pc = "DONE"
                         /\ state.needsRefinement = "true"

\* the first critique gave 0.85 and asked for a refinement: the run is over
\* with needsRefinement = true beside a passing score, below the cap
C37_Witness ==
    /\ pc = "DONE"
    /\ Len(Critiques) = 1
    /\ state.qualityScore = Num(85)
    /\ state.needsRefinement = "true"
    /\ state.iterations < MAX_ITERATIONS

\* the first critique gave 0.5 and asked for no refinement: the generation
\* ran again
C37_WitnessLoop ==
    /\ Len(Critiques) >= 1
    /\ Critiques[1].update.qualityScore = Num(50)
    /\ Critiques[1].update.needsRefinement = "false"
    /\ LastStep.node = "generator"
    /\ Executions("generator") = 2

-----------------------------------------------------------------------------
\* the state step i left behind
StateLeftBy(i) == IF i < Len(trace) THEN trace[i + 1].input ELSE state

\* the channels the critique writes and the generation is to leave alone
CritiqueChannels == {"qualityScore", "needsRefinement", "refinementReason", "iterations"}

\* the steps that ran the generation, whether it returned or threw
GenerationSteps == {i \in DOMAIN trace : trace[i].node = "generator"}

(* C38.  Every generation of a run, the first and each retry, calls         *)
(* generateAnswer with the same two inputs, the query of the run and the    *)
(* retrievedChunks the one retrieval produced; no draft, qualityScore or    *)
(* refinementReason is passed; and the generation leaves qualityScore,      *)
(* needsRefinement, refinementReason and iterations as they were.           *)
C38_GenerationInputsFixed ==
    \A i \in GenerationSteps :
        /\ Executions("retriever") = 1
        /\ trace[2].node = "retriever"
        /\ calls[i].agent = "generator"
        /\ DOMAIN calls[i].options = {"query", "chunks"}
        /\ calls[i].options.query = trace[1].input.query
        /\ calls[i].options.chunks = trace[2].update.retrievedChunks.v
        /\ \A j \in GenerationSteps : calls[j].options = calls[i].options
        /\ \A k \in CritiqueChannels : StateLeftBy(i)[k] = trace[i].input[k]

\* a retry after a critique that gave a reason: the second generation was
\* called as the first one was, on chunks that are there, and the verdict of
\* the critique is still in the state
C38_Witness ==
    /\ Cardinality(GenerationSteps) = 2
    /\ LastStep.node = "generator"
    /\ ~LastStep.threw
    /\ calls[Len(calls)].options = calls[3].options
    /\ calls[3].options.chunks # <<>>
    /\ trace[3].update.draftAnswer # LastStep.update.draftAnswer
    /\ state.refinementReason = "Incomplete answer"
    /\ state.qualityScore = Num(50)
    /\ state.iterations = 1

-----------------------------------------------------------------------------
(* C39.  In every terminal state of a run started with iterations = 0,      *)
(* currentAgent is critic and either qualityScore is at least 0.7 or        *)
(* iterations equals MAX_ITERATIONS; the last step of the run is a          *)
(* critique, the terminal qualityScore is the score that critique gave, and *)
(* the answer it was given to judge is the finalAnswer of the terminal      *)
(* state: no generation ran after the last critique.                        *)
C39_TerminalState ==
    pc = "DONE" =>
        /\ trace[1].input.iterations = 0
        /\ state.currentAgent = "critic"
        /\ \/ JsGeq(state.qualityScore, Num(QUALITY_THRESHOLD))
           \/ state.iterations = MAX_ITERATIONS
        /\ IsCritique(LastStep)
        /\ \A i \in GenerationSteps : i < Len(trace)
        /\ state.qualityScore = LastStep.update.qualityScore
        /\ LastCritiqueCall.agent = "critic"
        /\ LastCritiqueCall.options.answer = state.finalAnswer
        /\ state.finalAnswer = LastGeneration.update.finalAnswer

\* a run that gave up at the cap: the second critique gave 0.69 to the
\* second draft, which is the answer returned
C39_Witness ==
    /\ pc = "DONE"
    /\ Len(Critiques) = 2
    /\ state.iterations = MAX_ITERATIONS
    /\ state.qualityScore = Num(69)
    /\ state.finalAnswer = "Generated answer attempt 2"
    /\ trace[3].update.finalAnswer = "ML is a subset of AI [1]."
    /\ LastCritiqueCall.options.answer = "Generated answer attempt 2"

=============================================================================
